---------------------------- MODULE Spec2Model ----------------------------
(***************************************************************************)
(* Model of the Todo application's model layer:                            *)
(*   src/model/repository.py  SessionStateTaskRepository                   *)
(*   src/model/service.py     TodoService                                  *)
(* and of the task adapter:                                                *)
(*   src/adapter/task_adapter.py  TaskAdapter, BidirectionalTaskAdapter    *)
(* the repository of src/todo_mvc:                                         *)
(*   src/todo_mvc/model/repository.py  SessionStateTaskRepository          *)
(* and the controller:                                                     *)
(*   src/controller/todo_controller.py  TodoController                     *)
(*                                                                         *)
(* A Python str is a sequence of one-character strings, so that strip()   *)
(* and capitalize() are computed character by character.  None is the      *)
(* one-element sequence Null, which is no str.  The session state is a     *)
(* function from the keys that are present to their values.                *)
(***************************************************************************)
EXTENDS Integers, Sequences, FiniteSets, TLC

VARIABLES
  state,    \* the session state mapping handed to the repository (where an
            \* adapter is modelled: the adapter's field and the hash seed)
  last,     \* the last call made: its name and its return value
  issued    \* the values returned by next_id so far, in order

vars == <<state, last, issued>>

-----------------------------------------------------------------------------
(* Bounds *)

\* Spec: add_task is not called once the id counter exceeds MaxId.
MaxId == 2

\* IdSpec: add_task is not called once the id counter exceeds MaxIssued.
MaxIssued == 4

\* RepoSpec: add is not called once MaxStored tasks are stored.
MaxStored == 2

-----------------------------------------------------------------------------
(* Python values *)

Null == <<"None">>

TASKS_KEY == "todos"
NEXT_ID_KEY == "next_id"
CATEGORIES_KEY == "categories"

MAX_CATEGORIES == 5

FILTER_ALL == <<"A", "l", "l", "e">>
FILTER_OPEN == <<"O", "f", "f", "e", "n">>
FILTER_DONE == <<"E", "r", "l", "e", "d", "i", "g", "t">>

WHITESPACE == {" ", "\t", "\n"}

UPPER == <<"A","B","C","D","E","F","G","H","I","J","K","L","M",
           "N","O","P","Q","R","S","T","U","V","W","X","Y","Z">>
LOWER == <<"a","b","c","d","e","f","g","h","i","j","k","l","m",
           "n","o","p","q","r","s","t","u","v","w","x","y","z">>

PRIORITIES ==
  { <<"N","i","e","d","r","i","g">>, <<"M","i","t","t","e","l">>, <<"H","o","c","h">> }

DEFAULT_PRIORITY == Null

\* x or "": None and "" are both falsy.
OrEmpty(x) == IF x = Null THEN <<>> ELSE x

\* str.strip(): drops leading and trailing whitespace.
RECURSIVE lstrip(_)
lstrip(s) ==
  IF s # <<>> /\ Head(s) \in WHITESPACE THEN lstrip(Tail(s)) ELSE s

RECURSIVE rstrip(_)
rstrip(s) ==
  IF s # <<>> /\ s[Len(s)] \in WHITESPACE THEN rstrip(SubSeq(s, 1, Len(s) - 1)) ELSE s

strip(s) == rstrip(lstrip(s))

upper_char(c) ==
  IF \E i \in 1..Len(LOWER) : LOWER[i] = c
  THEN UPPER[CHOOSE i \in 1..Len(LOWER) : LOWER[i] = c] ELSE c

lower_char(c) ==
  IF \E i \in 1..Len(UPPER) : UPPER[i] = c
  THEN LOWER[CHOOSE i \in 1..Len(UPPER) : UPPER[i] = c] ELSE c

\* str.capitalize(): first character upper case, the rest lower case.
capitalize(s) ==
  [i \in 1..Len(s) |-> IF i = 1 THEN upper_char(s[i]) ELSE lower_char(s[i])]

\* x in list
InSeq(x, s) == \E i \in 1..Len(s) : s[i] = x

\* [f(x) for x in s if p(x)] for the shapes the code uses
RECURSIVE SelectOther(_, _)
SelectOther(s, x) ==
  IF s = <<>> THEN <<>>
  ELSE IF Head(s) # x THEN <<Head(s)>> \o SelectOther(Tail(s), x)
       ELSE SelectOther(Tail(s), x)

\* dict.get(key, default)
Get(kwargs, key, default) == IF key \in DOMAIN kwargs THEN kwargs[key] ELSE default

\* {**d, key: value}
Put(d, key, value) == [k \in DOMAIN d \cup {key} |-> IF k = key THEN value ELSE d[k]]

Task(id, title, done, due_date, category, priority) ==
  [id |-> id, title |-> title, done |-> done, due_date |-> due_date,
   category |-> category, priority |-> priority]

-----------------------------------------------------------------------------
(* SessionStateTaskRepository: each method is an operator from the session *)
(* state (and arguments) to the new session state and the return value.    *)

\* as ensure_initialized, storing the empty task list without the "not in"
\* test
ensure_initialized_reset(st) ==
  LET s1 == Put(st, TASKS_KEY, <<>>)
      s2 == IF NEXT_ID_KEY \notin DOMAIN s1 THEN Put(s1, NEXT_ID_KEY, 1) ELSE s1
      s3 == IF CATEGORIES_KEY \notin DOMAIN s2 THEN Put(s2, CATEGORIES_KEY, <<>>) ELSE s2
  IN s3

ensure_initialized(st) ==
  LET s1 == IF TASKS_KEY \notin DOMAIN st THEN Put(st, TASKS_KEY, <<>>) ELSE st
      s2 == IF NEXT_ID_KEY \notin DOMAIN s1 THEN Put(s1, NEXT_ID_KEY, 1) ELSE s1
      s3 == IF CATEGORIES_KEY \notin DOMAIN s2 THEN Put(s2, CATEGORIES_KEY, <<>>) ELSE s2
  IN s3

list_all(st) == ensure_initialized(st)[TASKS_KEY]

\* as next_id, without storing the incremented counter
next_id_stuck(st) ==
  LET s == ensure_initialized(st)
  IN [st |-> s, ret |-> s[NEXT_ID_KEY]]

next_id(st) ==
  LET s == ensure_initialized(st)
      nid == s[NEXT_ID_KEY]
  IN [st |-> Put(s, NEXT_ID_KEY, nid + 1), ret |-> nid]

add(st, task) ==
  LET s == ensure_initialized(st)
  IN Put(s, TASKS_KEY, Append(s[TASKS_KEY], task))

\* as delete_filter, removing only the first task with the id
delete_first(ts, task_id) ==
  IF \E i \in 1..Len(ts) : ts[i].id = task_id
  THEN LET k == CHOOSE i \in 1..Len(ts) :
                  /\ ts[i].id = task_id
                  /\ \A j \in 1..(i - 1) : ts[j].id # task_id
       IN SubSeq(ts, 1, k - 1) \o SubSeq(ts, k + 1, Len(ts))
  ELSE ts

RECURSIVE delete_filter(_, _)
delete_filter(ts, task_id) ==
  IF ts = <<>> THEN <<>>
  ELSE IF Head(ts).id # task_id THEN <<Head(ts)>> \o delete_filter(Tail(ts), task_id)
       ELSE delete_filter(Tail(ts), task_id)

delete(st, task_id) ==
  LET s == ensure_initialized(st)
  IN Put(s, TASKS_KEY, delete_filter(s[TASKS_KEY], task_id))

\* as update, building the new task without the priority of the old one
update_drops_priority(st, task_id, kwargs) ==
  LET s == ensure_initialized(st)
      ts == s[TASKS_KEY]
  IN Put(s, TASKS_KEY,
         [i \in 1..Len(ts) |->
            IF ts[i].id = task_id
            THEN Task(ts[i].id,
                      Get(kwargs, "title", ts[i].title),
                      Get(kwargs, "done", ts[i].done),
                      Get(kwargs, "due_date", ts[i].due_date),
                      Get(kwargs, "category", ts[i].category),
                      Get(kwargs, "priority", DEFAULT_PRIORITY))
            ELSE ts[i]])

update(st, task_id, kwargs) ==
  LET s == ensure_initialized(st)
      ts == s[TASKS_KEY]
  IN Put(s, TASKS_KEY,
         [i \in 1..Len(ts) |->
            IF ts[i].id = task_id
            THEN Task(ts[i].id,
                      Get(kwargs, "title", ts[i].title),
                      Get(kwargs, "done", ts[i].done),
                      Get(kwargs, "due_date", ts[i].due_date),
                      Get(kwargs, "category", ts[i].category),
                      Get(kwargs, "priority", ts[i].priority))
            ELSE ts[i]])

list_categories(st) == ensure_initialized(st)[CATEGORIES_KEY]

\* as add_category, with the limit tested by > instead of >=
add_category_off_by_one(st, name0) ==
  LET s == ensure_initialized(st)
      name == strip(OrEmpty(name0))
      cats == s[CATEGORIES_KEY]
  IN IF name = <<>> THEN [st |-> s, ret |-> FALSE]
     ELSE IF Len(cats) > MAX_CATEGORIES THEN [st |-> s, ret |-> FALSE]
     ELSE IF InSeq(name, cats) THEN [st |-> s, ret |-> FALSE]
     ELSE [st |-> Put(s, CATEGORIES_KEY, Append(cats, name)), ret |-> TRUE]

add_category(st, name0) ==
  LET s == ensure_initialized(st)
      name == strip(OrEmpty(name0))
      cats == s[CATEGORIES_KEY]
  IN IF name = <<>> THEN [st |-> s, ret |-> FALSE]
     ELSE IF Len(cats) >= MAX_CATEGORIES THEN [st |-> s, ret |-> FALSE]
     ELSE IF InSeq(name, cats) THEN [st |-> s, ret |-> FALSE]
     ELSE [st |-> Put(s, CATEGORIES_KEY, Append(cats, name)), ret |-> TRUE]

\* as rename_category, without the test that the new name is free
rename_category_unchecked(st, old0, new0) ==
  LET s == ensure_initialized(st)
      old == strip(OrEmpty(old0))
      new == strip(OrEmpty(new0))
      cats == s[CATEGORIES_KEY]
  IN IF old = <<>> \/ new = <<>> THEN [st |-> s, ret |-> FALSE]
     ELSE IF ~InSeq(old, cats) THEN [st |-> s, ret |-> FALSE]
     ELSE [st |-> Put(s, CATEGORIES_KEY,
                      [i \in 1..Len(cats) |-> IF cats[i] = old THEN new ELSE cats[i]]),
           ret |-> TRUE]

\* as rename_category, refusing a taken name only after the store is rewritten
rename_category_late_check(st, old0, new0) ==
  LET s == ensure_initialized(st)
      old == strip(OrEmpty(old0))
      new == strip(OrEmpty(new0))
      cats == s[CATEGORIES_KEY]
      renamed == Put(s, CATEGORIES_KEY,
                     [i \in 1..Len(cats) |-> IF cats[i] = old THEN new ELSE cats[i]])
  IN IF old = <<>> \/ new = <<>> THEN [st |-> s, ret |-> FALSE]
     ELSE IF ~InSeq(old, cats) THEN [st |-> s, ret |-> FALSE]
     ELSE IF InSeq(new, cats) /\ new # old THEN [st |-> renamed, ret |-> FALSE]
     ELSE [st |-> renamed, ret |-> TRUE]

rename_category(st, old0, new0) ==
  LET s == ensure_initialized(st)
      old == strip(OrEmpty(old0))
      new == strip(OrEmpty(new0))
      cats == s[CATEGORIES_KEY]
  IN IF old = <<>> \/ new = <<>> THEN [st |-> s, ret |-> FALSE]
     ELSE IF ~InSeq(old, cats) THEN [st |-> s, ret |-> FALSE]
     ELSE IF InSeq(new, cats) /\ new # old THEN [st |-> s, ret |-> FALSE]
     ELSE [st |-> Put(s, CATEGORIES_KEY,
                      [i \in 1..Len(cats) |-> IF cats[i] = old THEN new ELSE cats[i]]),
           ret |-> TRUE]

delete_category(st, name0) ==
  LET s == ensure_initialized(st)
      name == strip(OrEmpty(name0))
      cats == s[CATEGORIES_KEY]
  IN IF name = <<>> THEN [st |-> s, ret |-> FALSE]
     ELSE IF ~InSeq(name, cats) THEN [st |-> s, ret |-> FALSE]
     ELSE [st |-> Put(s, CATEGORIES_KEY, SelectOther(cats, name)), ret |-> TRUE]

-----------------------------------------------------------------------------
(* TodoService *)

initialize(st) == ensure_initialized(st)

\* as validate_title, without the strip()
validate_title_nostrip(title0) ==
  LET title == OrEmpty(title0)
  IN IF title # <<>> THEN title ELSE Null

validate_title(title0) ==
  LET title == strip(OrEmpty(title0))
  IN IF title # <<>> THEN title ELSE Null

\* as validate_priority, without the capitalize()
validate_priority_nocase(priority0) ==
  IF priority0 = Null THEN Null
  ELSE LET priority == strip(priority0)
       IN IF priority \in PRIORITIES THEN priority ELSE Null

validate_priority(priority0) ==
  IF priority0 = Null THEN Null
  ELSE LET priority == capitalize(strip(priority0))
       IN IF priority \in PRIORITIES THEN priority ELSE Null

\* as validate_category, without the look-up in the category store
validate_category_unchecked(st, category0) ==
  LET stripped == strip(OrEmpty(category0))
  IN IF stripped = <<>> THEN Null ELSE stripped

validate_category(st, category0) ==
  LET stripped == strip(OrEmpty(category0))
      category == IF stripped = <<>> THEN Null ELSE stripped
  IN IF category # Null /\ ~InSeq(category, list_categories(st)) THEN Null
     ELSE category

\* str.lower()
lower(s) == [i \in 1..Len(s) |-> lower_char(s[i])]

DIGITS == <<"0", "1", "2", "3", "4", "5", "6", "7", "8", "9">>

\* the characters in code point order
CODEPOINTS ==
  <<"\t", "\n", " ", "+", "-">> \o DIGITS \o <<":">> \o UPPER \o <<"_">> \o LOWER

ord(c) == CHOOSE i \in 1..Len(CODEPOINTS) : CODEPOINTS[i] = c

\* a < b for str: lexicographic by code point, a proper prefix first
RECURSIVE str_lt(_, _)
str_lt(a, b) ==
  IF b = <<>> THEN FALSE
  ELSE IF a = <<>> THEN TRUE
  ELSE IF Head(a) = Head(b) THEN str_lt(Tail(a), Tail(b))
  ELSE ord(Head(a)) < ord(Head(b))

\* as insert_by_lower, comparing the names themselves: list.sort()
RECURSIVE insert_plain(_, _)
insert_plain(sorted, x) ==
  IF sorted = <<>> THEN <<x>>
  ELSE IF str_lt(x, Head(sorted)) THEN <<x>> \o sorted
  ELSE <<Head(sorted)>> \o insert_plain(Tail(sorted), x)

\* list.sort(key=lambda x: x.lower()): stable, so x goes behind every element
\* whose key is not greater than its own
RECURSIVE insert_by_lower(_, _)
insert_by_lower(sorted, x) ==
  IF sorted = <<>> THEN <<x>>
  ELSE IF str_lt(lower(x), lower(Head(sorted))) THEN <<x>> \o sorted
  ELSE <<Head(sorted)>> \o insert_by_lower(Tail(sorted), x)

RECURSIVE sort_by_lower(_)
sort_by_lower(s) ==
  IF s = <<>> THEN <<>>
  ELSE insert_by_lower(sort_by_lower(SubSeq(s, 1, Len(s) - 1)), s[Len(s)])

service_list_categories(st) == sort_by_lower(list_categories(st))

service_can_add_category(st) == Len(list_categories(st)) < MAX_CATEGORIES

service_add_category(st, name0) ==
  LET name == strip(OrEmpty(name0))
  IN IF name = <<>> THEN [st |-> st, ret |-> FALSE]
     ELSE add_category(st, name)

\* as cascade, leaving the loop after the first task it updates
RECURSIVE cascade_first(_, _, _, _)
cascade_first(st, tasks, from, to) ==
  IF tasks = <<>> THEN st
  ELSE IF Head(tasks).category = from
       THEN update(st, Head(tasks).id, [k \in {"category"} |-> to])
       ELSE cascade_first(st, Tail(tasks), from, to)

\* for task in tasks: if task.category == from_: repo.update(task.id, category=to)
RECURSIVE cascade(_, _, _, _)
cascade(st, tasks, from, to) ==
  IF tasks = <<>> THEN st
  ELSE cascade(IF Head(tasks).category = from
               THEN update(st, Head(tasks).id, [k \in {"category"} |-> to])
               ELSE st,
               Tail(tasks), from, to)

\* as service_rename_category, without the update of the tasks
service_rename_category_nocascade(st, old0, new0) ==
  LET old == strip(OrEmpty(old0))
      new == strip(OrEmpty(new0))
  IN IF old = <<>> \/ new = <<>> THEN [st |-> st, ret |-> FALSE]
     ELSE rename_category(st, old, new)

service_rename_category(st, old0, new0) ==
  LET old == strip(OrEmpty(old0))
      new == strip(OrEmpty(new0))
  IN IF old = <<>> \/ new = <<>> THEN [st |-> st, ret |-> FALSE]
     ELSE LET r == rename_category(st, old, new)
          IN IF ~r.ret THEN [st |-> r.st, ret |-> FALSE]
             ELSE IF old # new
                  THEN [st |-> cascade(r.st, list_all(r.st), old, new), ret |-> TRUE]
                  ELSE [st |-> r.st, ret |-> TRUE]

\* as service_delete_category, without the update of the tasks
service_delete_category_nocascade(st, name0) ==
  LET name == strip(OrEmpty(name0))
  IN IF name = <<>> THEN [st |-> st, ret |-> FALSE]
     ELSE delete_category(st, name)

service_delete_category(st, name0) ==
  LET name == strip(OrEmpty(name0))
  IN IF name = <<>> THEN [st |-> st, ret |-> FALSE]
     ELSE LET r == delete_category(st, name)
          IN IF ~r.ret THEN [st |-> r.st, ret |-> FALSE]
             ELSE [st |-> cascade(r.st, list_all(r.st), name, Null), ret |-> TRUE]

service_add_task(st, title, due_date, category, priority) ==
  LET validated_title == validate_title(title)
  IN IF validated_title = Null THEN [st |-> st, ret |-> FALSE, id |-> 0]
     ELSE LET validated_category == validate_category(st, category)
              validated_priority == validate_priority(priority)
              n == next_id(st)
          IN [st |-> add(n.st, Task(n.ret, validated_title, FALSE, due_date,
                                     validated_category, validated_priority)),
              ret |-> TRUE, id |-> n.ret]

service_delete_task(st, task_id) == delete(st, task_id)

\* as service_set_done, writing the default priority along with done
service_set_done_drops_priority(st, task_id, done) ==
  update(st, task_id, [k \in {"done", "priority"} |-> IF k = "done" THEN done ELSE DEFAULT_PRIORITY])

service_set_done(st, task_id, done) == update(st, task_id, [k \in {"done"} |-> done])

service_rename_task(st, task_id, new_title) ==
  LET validated_title == validate_title(new_title)
  IN IF validated_title = Null THEN [st |-> st, ret |-> FALSE]
     ELSE [st |-> update(st, task_id, [k \in {"title"} |-> validated_title]), ret |-> TRUE]

service_set_due_date(st, task_id, due_date) ==
  update(st, task_id, [k \in {"due_date"} |-> due_date])

service_set_category(st, task_id, category) ==
  update(st, task_id, [k \in {"category"} |-> validate_category(st, category)])

service_set_priority(st, task_id, priority) ==
  update(st, task_id, [k \in {"priority"} |-> validate_priority(priority)])

\* as service_update_task, leaving out an invalid title and writing the rest
service_update_task_skips_title(st, task_id, title, due_date, category, priority, update_due_date, update_priority) ==
  LET u0 == <<>>
      bad_title == title # Null /\ validate_title(title) = Null
      u1 == IF title # Null /\ ~bad_title THEN Put(u0, "title", validate_title(title)) ELSE u0
      u2 == IF update_due_date THEN Put(u1, "due_date", due_date) ELSE u1
      u3 == IF category # Null THEN Put(u2, "category", validate_category(st, category))
            ELSE u2
      u4 == IF update_priority THEN Put(u3, "priority", validate_priority(priority))
            ELSE u3
  IN IF DOMAIN u4 # {} THEN [st |-> update(st, task_id, u4), ret |-> ~bad_title]
     ELSE [st |-> st, ret |-> ~bad_title]

\* as service_update_task, with "is not None" tests in place of the two flags
service_update_task_unflagged(st, task_id, title, due_date, category, priority, update_due_date, update_priority) ==
  LET u0 == <<>>
      bad_title == title # Null /\ validate_title(title) = Null
      u1 == IF title # Null THEN Put(u0, "title", validate_title(title)) ELSE u0
      u2 == IF due_date # Null THEN Put(u1, "due_date", due_date) ELSE u1
      u3 == IF category # Null THEN Put(u2, "category", validate_category(st, category))
            ELSE u2
      u4 == IF priority # Null THEN Put(u3, "priority", validate_priority(priority))
            ELSE u3
  IN IF bad_title THEN [st |-> st, ret |-> FALSE]
     ELSE IF DOMAIN u4 # {} THEN [st |-> update(st, task_id, u4), ret |-> TRUE]
     ELSE [st |-> st, ret |-> TRUE]

\* as service_update_task, writing the category whatever it is given
service_update_task_writes_category(st, task_id, title, due_date, category, priority, update_due_date, update_priority) ==
  LET u0 == <<>>
      bad_title == title # Null /\ validate_title(title) = Null
      u1 == IF title # Null THEN Put(u0, "title", validate_title(title)) ELSE u0
      u2 == IF update_due_date THEN Put(u1, "due_date", due_date) ELSE u1
      u3 == Put(u2, "category", validate_category(st, category))
      u4 == IF update_priority THEN Put(u3, "priority", validate_priority(priority))
            ELSE u3
  IN IF bad_title THEN [st |-> st, ret |-> FALSE]
     ELSE [st |-> update(st, task_id, u4), ret |-> TRUE]

service_update_task(st, task_id, title, due_date, category, priority, update_due_date, update_priority) ==
  LET u0 == <<>>
      bad_title == title # Null /\ validate_title(title) = Null
      u1 == IF title # Null THEN Put(u0, "title", validate_title(title)) ELSE u0
      u2 == IF update_due_date THEN Put(u1, "due_date", due_date) ELSE u1
      u3 == IF category # Null THEN Put(u2, "category", validate_category(st, category))
            ELSE u2
      u4 == IF update_priority THEN Put(u3, "priority", validate_priority(priority))
            ELSE u3
  IN IF bad_title THEN [st |-> st, ret |-> FALSE]
     ELSE IF DOMAIN u4 # {} THEN [st |-> update(st, task_id, u4), ret |-> TRUE]
     ELSE [st |-> st, ret |-> TRUE]

\* [t for t in all_tasks if t.done] (done = TRUE), [... if not t.done] (FALSE)
RECURSIVE comprehension(_, _)
comprehension(all_tasks, done) ==
  IF all_tasks = <<>> THEN <<>>
  ELSE IF Head(all_tasks).done = done
       THEN <<Head(all_tasks)>> \o comprehension(Tail(all_tasks), done)
       ELSE comprehension(Tail(all_tasks), done)

\* sum(1 for t in all_tasks if t.done) (done = TRUE), (... if not t.done) (FALSE)
RECURSIVE sum_1(_, _)
sum_1(all_tasks, done) ==
  IF all_tasks = <<>> THEN 0
  ELSE (IF Head(all_tasks).done = done THEN 1 ELSE 0) + sum_1(Tail(all_tasks), done)

\* as service_get_filtered_tasks, with an empty list for a filter value that
\* is none of the three
service_get_filtered_tasks_strict(st, filter_value) ==
  LET s == ensure_initialized(st)
      all_tasks == list_all(s)
  IN [st |-> s,
      ret |-> IF filter_value = FILTER_OPEN THEN comprehension(all_tasks, FALSE)
              ELSE IF filter_value = FILTER_DONE THEN comprehension(all_tasks, TRUE)
              ELSE IF filter_value = FILTER_ALL THEN all_tasks
              ELSE <<>>]

service_get_filtered_tasks(st, filter_value) ==
  LET s == ensure_initialized(st)
      all_tasks == list_all(s)
  IN [st |-> s,
      ret |-> IF filter_value = FILTER_OPEN THEN comprehension(all_tasks, FALSE)
              ELSE IF filter_value = FILTER_DONE THEN comprehension(all_tasks, TRUE)
              ELSE all_tasks]

service_get_task_counts(st) ==
  LET s == ensure_initialized(st)
      all_tasks == list_all(s)
      all_count == Len(all_tasks)
      open_count == sum_1(all_tasks, FALSE)
      done_count == sum_1(all_tasks, TRUE)
  IN [st |-> s, ret |-> <<all_count, open_count, done_count>>]

-----------------------------------------------------------------------------
(* Calls.  One action per public method; the whole method is one step.     *)
(* last records the call: its name, its arguments and its return value.    *)

Ret(b) == IF b THEN "True" ELSE "False"

\* a Python list object as its caller sees it: its items, and whether it is
\* the very object that the session state holds
list_alias(items) == [alias |-> TRUE, items |-> items]

\* list(x): a new list object with the items of x
list_copy(items) == [alias |-> FALSE, items |-> items]

\* what a call returned when that is a list or numbers and not a truth
\* value: the items of the list, whether the list is the very object that the
\* session state holds, and the numbers
Out(list, ints) == [alias |-> list.alias, items |-> list.items, ints |-> ints]

NoList == [alias |-> FALSE, items |-> <<>>]

Called(op, args, ret) == [op |-> op, args |-> args, ret |-> ret, out |-> Out(NoList, <<>>)]

Returned(op, args, type, out) == [op |-> op, args |-> args, ret |-> type, out |-> out]

Initialize ==
  /\ state' = initialize(state)
  /\ last' = Called("initialize", <<>>, "None")
  /\ UNCHANGED issued

AddCategory(name) ==
  LET r == service_add_category(state, name)
  IN /\ state' = r.st
     /\ last' = Called("add_category", <<name>>, Ret(r.ret))
     /\ UNCHANGED issued

RenameCategory(old, new) ==
  LET r == service_rename_category(state, old, new)
  IN /\ state' = r.st
     /\ last' = Called("rename_category", <<old, new>>, Ret(r.ret))
     /\ UNCHANGED issued

DeleteCategory(name) ==
  LET r == service_delete_category(state, name)
  IN /\ state' = r.st
     /\ last' = Called("delete_category", <<name>>, Ret(r.ret))
     /\ UNCHANGED issued

CanAddCategory ==
  /\ state' = ensure_initialized(state)
  /\ last' = Called("can_add_category", <<>>, Ret(service_can_add_category(state)))
  /\ UNCHANGED issued

AddTask(title, due_date, category, priority) ==
  LET r == service_add_task(state, title, due_date, category, priority)
  IN /\ state' = r.st
     /\ last' = Called("add_task", <<title, due_date, category, priority>>, Ret(r.ret))
     /\ issued' = IF r.ret THEN Append(issued, r.id) ELSE issued

DeleteTask(task_id) ==
  /\ state' = service_delete_task(state, task_id)
  /\ last' = Called("delete_task", <<task_id>>, "None")
  /\ UNCHANGED issued

SetDone(task_id, done) ==
  /\ state' = service_set_done(state, task_id, done)
  /\ last' = Called("set_done", <<task_id, done>>, "None")
  /\ UNCHANGED issued

RenameTask(task_id, new_title) ==
  LET r == service_rename_task(state, task_id, new_title)
  IN /\ state' = r.st
     /\ last' = Called("rename_task", <<task_id, new_title>>, Ret(r.ret))
     /\ UNCHANGED issued

SetDueDate(task_id, due_date) ==
  /\ state' = service_set_due_date(state, task_id, due_date)
  /\ last' = Called("set_due_date", <<task_id, due_date>>, "None")
  /\ UNCHANGED issued

SetCategory(task_id, category) ==
  /\ state' = service_set_category(state, task_id, category)
  /\ last' = Called("set_category", <<task_id, category>>, "None")
  /\ UNCHANGED issued

SetPriority(task_id, priority) ==
  /\ state' = service_set_priority(state, task_id, priority)
  /\ last' = Called("set_priority", <<task_id, priority>>, "None")
  /\ UNCHANGED issued

UpdateTask(task_id, title, due_date, category, priority, update_due_date, update_priority) ==
  LET r == service_update_task(state, task_id, title, due_date, category, priority,
                               update_due_date, update_priority)
  IN /\ state' = r.st
     /\ last' = Called("update_task",
                       <<task_id, title, due_date, category, priority,
                         update_due_date, update_priority>>, Ret(r.ret))
     /\ UNCHANGED issued

-----------------------------------------------------------------------------
(* The service under every one of its calls *)

Init ==
  /\ state = <<>>
  /\ last = Called("construct", <<>>, "None")
  /\ issued = <<>>

\* arguments the calls are made with
W == <<"W">>
J == <<"J">>
D1 == <<"2025-06-15">>
Hoch == <<"H", "o", "c", "h">>

TITLES == {Null, <<>>, <<" ">>, <<"a", " ">>}
NAMES == {Null, <<" ">>, <<" ", "W">>, J}
IDS == 1..(MaxId + 1)

NextId == ensure_initialized(state)[NEXT_ID_KEY]

Next ==
  \/ Initialize
  \/ \E n \in NAMES : AddCategory(n)
  \/ \E o \in NAMES, n \in NAMES : RenameCategory(o, n)
  \/ \E n \in NAMES : DeleteCategory(n)
  \/ \E t \in TITLES, c \in NAMES : NextId <= MaxId /\ AddTask(t, Null, c, Null)
  \/ \E i \in IDS : DeleteTask(i)
  \/ \E i \in IDS, b \in BOOLEAN : SetDone(i, b)
  \/ \E i \in IDS, t \in {<<" ">>, <<"a">>} : RenameTask(i, t)
  \/ \E i \in IDS : SetDueDate(i, Null)
  \/ \E i \in IDS, c \in NAMES : SetCategory(i, c)
  \/ \E i \in IDS : SetPriority(i, Null)
  \/ \E i \in IDS, c \in NAMES : UpdateTask(i, Null, Null, c, Null, FALSE, FALSE)

Spec == Init /\ [][Next]_vars

-----------------------------------------------------------------------------
(* What a caller reads from the session state *)

Todos == list_all(state)
Categories == list_categories(state)
Counter == ensure_initialized(state)[NEXT_ID_KEY]

\* the str an argument stands for once trimmed ("" for None)
Trimmed(x) == strip(OrEmpty(x))

Blank(x) == x = Null \/ \A i \in 1..Len(x) : x[i] \in WHITESPACE

SameStores ==
  /\ list_all(state') = list_all(state)
  /\ list_categories(state') = list_categories(state)
  /\ ensure_initialized(state')[NEXT_ID_KEY] = ensure_initialized(state)[NEXT_ID_KEY]

-----------------------------------------------------------------------------
\* C1: after any sequence of TodoService calls every stored task has
\* category None or a name that is currently in the category store.
C1_ReferentialIntegrity ==
  \A i \in 1..Len(Todos) :
    Todos[i].category = Null \/ InSeq(Todos[i].category, Categories)

\* a category was deleted while one task referred to it and another task
\* referred to a category that stays
C1_Witness ==
  /\ last.op = "delete_category" /\ last.ret = "True"
  /\ \E i, j \in 1..Len(Todos) :
       /\ Todos[i].category = Null
       /\ Todos[j].category # Null /\ InSeq(Todos[j].category, Categories)

\* C3: add_task with a title that is None, empty or only whitespace returns
\* False and leaves the task list, the category store and the id counter as
\* they were.
C3_TitleRejection ==
  [][ (last'.op = "add_task" /\ Blank(last'.args[1]))
        => (last'.ret = "False" /\ SameStores /\ issued' = issued) ]_vars

\* a whitespace title was rejected while a task and a category are stored
C3_Witness ==
  /\ last.op = "add_task" /\ last.args[1] = <<" ">> /\ last.ret = "False"
  /\ Len(Todos) > 0 /\ Len(Categories) > 0

\* C4: when rename_category(old, new) returns True with old # new, every task
\* whose category was old has category new, every other task is unchanged, old
\* is absent from list_categories() and new is present.
C4_RenameCascade ==
  [][ (/\ last'.op = "rename_category" /\ last'.ret = "True"
       /\ Trimmed(last'.args[1]) # Trimmed(last'.args[2]))
        => LET old == Trimmed(last'.args[1])
               new == Trimmed(last'.args[2])
               before == list_all(state)
               after == list_all(state')
           IN /\ Len(after) = Len(before)
              /\ \A i \in 1..Len(before) :
                   after[i] = IF before[i].category = old
                              THEN [before[i] EXCEPT !.category = new]
                              ELSE before[i]
              /\ ~InSeq(old, service_list_categories(state'))
              /\ InSeq(new, service_list_categories(state')) ]_vars

\* Work was renamed to Job while two tasks were in it
C4_Witness ==
  /\ last.op = "rename_category" /\ last.ret = "True"
  /\ Trimmed(last.args[1]) = W /\ Trimmed(last.args[2]) = J
  /\ Len(Todos) = 2 /\ Todos[1].category = J /\ Todos[2].category = J

\* C5: when delete_category(name) returns True, every task whose category was
\* name has category None, every other task is unchanged, and name is absent
\* from the category store.
C5_DeleteCascade ==
  [][ (last'.op = "delete_category" /\ last'.ret = "True")
        => LET name == Trimmed(last'.args[1])
               before == list_all(state)
               after == list_all(state')
           IN /\ Len(after) = Len(before)
              /\ \A i \in 1..Len(before) :
                   after[i] = IF before[i].category = name
                              THEN [before[i] EXCEPT !.category = Null]
                              ELSE before[i]
              /\ ~InSeq(name, list_categories(state')) ]_vars

\* Work was deleted; the task in Job keeps its category
C5_Witness ==
  /\ last.op = "delete_category" /\ last.ret = "True"
  /\ Trimmed(last.args[1]) = W
  /\ Len(Todos) = 2 /\ Todos[1].category = J /\ Todos[2].category = Null
  /\ Categories = <<J>>

\* C10: add_task, set_category and update_task given a non-empty category
\* name that is not in the category store store None as the task's category,
\* do not fail on that account, and leave the category store unchanged.
Unknown(c) == Trimmed(c) # <<>> /\ ~InSeq(Trimmed(c), list_categories(state))

C10_UnknownCategory ==
  [][ LET a == last'.args
          after == list_all(state')
      IN /\ (last'.op = "add_task" /\ ~Blank(a[1]) /\ Unknown(a[3]))
              => /\ last'.ret = "True"
                 /\ Len(after) = Len(list_all(state)) + 1
                 /\ after[Len(after)].category = Null
                 /\ list_categories(state') = list_categories(state)
         /\ (last'.op = "set_category" /\ Unknown(a[2]))
              => /\ \A i \in 1..Len(after) : after[i].id = a[1] => after[i].category = Null
                 /\ list_categories(state') = list_categories(state)
         /\ (last'.op = "update_task" /\ (a[2] = Null \/ ~Blank(a[2])) /\ Unknown(a[4]))
              => /\ last'.ret = "True"
                 /\ \A i \in 1..Len(after) : after[i].id = a[1] => after[i].category = Null
                 /\ list_categories(state') = list_categories(state) ]_vars

\* set_category with Job, which is not stored, cleared a task that was in Work
C10_Witness ==
  /\ last.op = "set_category" /\ last.args[2] = J
  /\ Categories = <<W>>
  /\ \E i \in 1..Len(Todos) : Todos[i].id = last.args[1] /\ Todos[i].category = Null

-----------------------------------------------------------------------------
(* The service under add_task and delete_task alone *)

IdNext ==
  \/ \E t \in {<<" ">>, <<"a">>} : NextId <= MaxIssued /\ AddTask(t, Null, Null, Null)
  \/ \E i \in 1..(MaxIssued + 1) : DeleteTask(i)

IdSpec == Init /\ [][IdNext]_vars

Range(s) == {s[i] : i \in 1..Len(s)}

\* C2: next_id returns the counter, which starts at 1, and increments it by
\* one: the ids assigned are strictly increasing, the stored tasks have
\* pairwise distinct ids, and the id of a deleted task is never assigned again
\* (every stored id is one of the ids assigned so far, and none of those
\* repeats).
C2_IdsUniqueNeverReused ==
  /\ \A k \in 1..Len(issued) : issued[k] = k
  /\ Counter = Len(issued) + 1
  /\ \A i, j \in 1..Len(issued) : i < j => issued[i] < issued[j]
  /\ \A i, j \in 1..Len(Todos) : i # j => Todos[i].id # Todos[j].id
  /\ \A i \in 1..Len(Todos) : Todos[i].id \in Range(issued)
  /\ (last.op = "add_task" /\ last.ret = "True")
       => Todos[Len(Todos)].id = issued[Len(issued)]

\* tasks 1 and 2 were deleted, and the next task got id 3
C2_Witness ==
  /\ last.op = "add_task" /\ last.ret = "True"
  /\ issued = <<1, 2, 3>>
  /\ Len(Todos) = 1 /\ Todos[1].id = 3

-----------------------------------------------------------------------------
(* The repository called directly, as its unit tests call it *)

RepoAdd(task) ==
  /\ state' = add(state, task)
  /\ last' = Called("repo.add", <<task>>, "None")
  /\ UNCHANGED issued

RepoAddCategory(name) ==
  LET r == add_category(state, name)
  IN /\ state' = r.st
     /\ last' = Called("repo.add_category", <<name>>, Ret(r.ret))
     /\ UNCHANGED issued

RepoRenameCategory(old, new) ==
  LET r == rename_category(state, old, new)
  IN /\ state' = r.st
     /\ last' = Called("repo.rename_category", <<old, new>>, Ret(r.ret))
     /\ UNCHANGED issued

RepoDeleteCategory(name) ==
  LET r == delete_category(state, name)
  IN /\ state' = r.st
     /\ last' = Called("repo.delete_category", <<name>>, Ret(r.ret))
     /\ UNCHANGED issued

REPO_NAMES == {<<" ">>, W, J}

RepoNext ==
  \/ \E i \in 1..MaxStored, c \in {Null, W, J} :
       /\ Len(list_all(state)) < MaxStored
       /\ RepoAdd(Task(i, <<"a">>, FALSE, Null, c, DEFAULT_PRIORITY))
  \/ \E n \in REPO_NAMES : RepoAddCategory(n)
  \/ \E o \in REPO_NAMES, n \in REPO_NAMES : RepoRenameCategory(o, n)
  \/ \E n \in REPO_NAMES : RepoDeleteCategory(n)

RepoSpec == Init /\ [][RepoNext]_vars

\* C6: a successful SessionStateTaskRepository.rename_category(old, new),
\* called directly on the repository, replaces old by new in the category
\* store and rewrites every stored task whose category is old to new.
C6_RepoRenameCascade ==
  [][ (last'.op = "repo.rename_category" /\ last'.ret = "True")
        => LET old == Trimmed(last'.args[1])
               new == Trimmed(last'.args[2])
               cats == list_categories(state)
               before == list_all(state)
               after == list_all(state')
           IN /\ list_categories(state')
                   = [i \in 1..Len(cats) |-> IF cats[i] = old THEN new ELSE cats[i]]
              /\ Len(after) = Len(before)
              /\ \A i \in 1..Len(before) :
                   after[i] = IF before[i].category = old
                              THEN [before[i] EXCEPT !.category = new]
                              ELSE before[i] ]_vars

\* C7: a successful SessionStateTaskRepository.delete_category(name), called
\* directly on the repository, removes name from the category store and
\* rewrites every stored task whose category is name to None.
C7_RepoDeleteCascade ==
  [][ (last'.op = "repo.delete_category" /\ last'.ret = "True")
        => LET name == Trimmed(last'.args[1])
               before == list_all(state)
               after == list_all(state')
           IN /\ ~InSeq(name, list_categories(state'))
              /\ Len(after) = Len(before)
              /\ \A i \in 1..Len(before) :
                   after[i] = IF before[i].category = name
                              THEN [before[i] EXCEPT !.category = Null]
                              ELSE before[i] ]_vars

-----------------------------------------------------------------------------
(* The service under its category calls, with more names than the store    *)
(* takes                                                                   *)

CAT_NAMES == {<<"A">>, <<"B">>, <<"C">>, <<"D">>, <<"E">>, <<"F">>}

CatNext ==
  \/ \E n \in CAT_NAMES \cup {Null, <<" ">>, <<" ", "A", " ">>} : AddCategory(n)
  \/ \E o \in {<<"A">>, <<"F", " ">>}, n \in {<<"A">>, <<" ", "B">>, <<" ">>} :
       RenameCategory(o, n)
  \/ \E n \in {<<"A">>, <<"B">>, <<"F">>, <<>>} : DeleteCategory(n)
  \/ CanAddCategory

CatSpec == Init /\ [][CatNext]_vars

\* C8: the category store never holds more than MAX_CATEGORIES names;
\* add_category called when it holds MAX_CATEGORIES names returns False and
\* leaves exactly those names; can_add_category() is True exactly when fewer
\* than MAX_CATEGORIES names are stored.
C8_CategoryCap ==
  [][ /\ Len(list_categories(state')) <= MAX_CATEGORIES
      /\ (last'.op = "add_category" /\ Len(list_categories(state)) = MAX_CATEGORIES)
           => (last'.ret = "False" /\ list_categories(state') = list_categories(state))
      /\ (last'.op = "can_add_category")
           => /\ (last'.ret = "True") <=> (Len(list_categories(state)) < MAX_CATEGORIES)
              /\ list_categories(state') = list_categories(state) ]_vars

\* a sixth, new name was refused by a full store
C8_Witness ==
  /\ last.op = "add_category" /\ last.ret = "False"
  /\ Len(Categories) = MAX_CATEGORIES
  /\ ~Blank(last.args[1]) /\ ~InSeq(Trimmed(last.args[1]), Categories)

\* C9: after any sequence of add_category, rename_category and
\* delete_category the category store holds pairwise distinct, non-empty,
\* trimmed names; add_category of a name already present returns False, and
\* rename_category(old, new) with new present as a different category returns
\* False.
C9_CategoryUniqueness ==
  [][ LET cats == list_categories(state)
          cats2 == list_categories(state')
      IN /\ \A i, j \in 1..Len(cats2) : i # j => cats2[i] # cats2[j]
         /\ \A i \in 1..Len(cats2) : cats2[i] # <<>> /\ strip(cats2[i]) = cats2[i]
         /\ (last'.op = "add_category" /\ InSeq(Trimmed(last'.args[1]), cats))
              => last'.ret = "False"
         /\ (/\ last'.op = "rename_category"
             /\ InSeq(Trimmed(last'.args[2]), cats)
             /\ Trimmed(last'.args[2]) # Trimmed(last'.args[1]))
              => last'.ret = "False" ]_vars

\* renaming A to B was refused while both are stored
C9_Witness ==
  /\ last.op = "rename_category" /\ last.ret = "False"
  /\ Trimmed(last.args[1]) = <<"A">> /\ Trimmed(last.args[2]) = <<"B">>
  /\ InSeq(<<"A">>, Categories) /\ InSeq(<<"B">>, Categories)

-----------------------------------------------------------------------------
(* The service under the calls that write a priority *)

\* PrioSpec: add_task is not called once the id counter exceeds MaxPrioId.
MaxPrioId == 2

Niedrig == <<"N", "i", "e", "d", "r", "i", "g">>
Mittel == <<"M", "i", "t", "t", "e", "l">>

PRIO_ARGS ==
  {Null, <<>>, <<"h", "o", "c", "h">>, <<" ", "H", "O", "C", "H", " ">>, Mittel,
   <<"n", "i", "e", "d", "R", "I", "G", "\n">>, <<"I", "n", "v", "a", "l", "i", "d">>}

PrioNext ==
  \/ \E p \in PRIO_ARGS : NextId <= MaxPrioId /\ AddTask(<<"a">>, Null, Null, p)
  \/ \E i \in 1..MaxPrioId, p \in PRIO_ARGS : SetPriority(i, p)
  \/ \E i \in 1..MaxPrioId, p \in PRIO_ARGS, up \in BOOLEAN :
       UpdateTask(i, Null, Null, Null, p, FALSE, up)

PrioSpec == Init /\ [][PrioNext]_vars

\* the priority whose name equals the trimmed argument when case is ignored
Normalised(p) ==
  IF p # Null /\ \E q \in PRIORITIES : lower(q) = lower(strip(p))
  THEN CHOOSE q \in PRIORITIES : lower(q) = lower(strip(p))
  ELSE Null

-----------------------------------------------------------------------------
(* The repository's task methods called directly, and the list that *)
(* list_all returns in the hands of its caller                       *)

\* RepoTaskSpec: add is not called on a list of MaxRepoTasks tasks, next_id
\* not once the counter exceeds MaxRepoTasks.
MaxRepoTasks == 2

REPO_IDS == {1, 2}

REPO_TASKS == {Task(i, <<"a">>, FALSE, D1, W, Hoch) : i \in REPO_IDS}

UPDATE_KWARGS ==
  {[done |-> TRUE],
   [title |-> <<"b">>, due_date |-> Null, category |-> Null, priority |-> Null]}

LIST_METHODS == {"list.append", "list.pop", "list.reverse"}

RepoNextId ==
  LET r == next_id(state)
  IN /\ state' = r.st
     /\ last' = Returned("repo.next_id", <<>>, "int", Out(NoList, <<r.ret>>))
     /\ UNCHANGED issued

RepoUpdate(task_id, kwargs) ==
  /\ state' = update(state, task_id, kwargs)
  /\ last' = Called("repo.update", <<task_id, kwargs>>, "None")
  /\ UNCHANGED issued

RepoDelete(task_id) ==
  /\ state' = delete(state, task_id)
  /\ last' = Called("repo.delete", <<task_id>>, "None")
  /\ UNCHANGED issued

RepoListAll ==
  /\ state' = ensure_initialized(state)
  /\ last' = Returned("repo.list_all", <<>>, "list", Out(list_copy(list_all(state)), <<>>))
  /\ UNCHANGED issued

\* the items of a list after one call of a mutating list method
Mutated(method, items) ==
  CASE method = "list.append" -> Append(items, Task(0, <<"x">>, FALSE, Null, Null, Null))
    [] method = "list.pop" -> SubSeq(items, 1, Len(items) - 1)
    [] method = "list.reverse" -> [i \in 1..Len(items) |-> items[Len(items) + 1 - i]]

\* the caller of list_all calls a mutating method on the list it was given
CallerMutates(method) ==
  /\ last.op = "repo.list_all"
  /\ method = "list.pop" => last.out.items # <<>>
  /\ LET items == Mutated(method, last.out.items)
     IN /\ state' = IF last.out.alias THEN Put(state, TASKS_KEY, items) ELSE state
        /\ last' = Returned(method, <<>>, "None", [last.out EXCEPT !.items = items])
  /\ UNCHANGED issued

RepoTaskNext ==
  \/ \E t \in REPO_TASKS : Len(list_all(state)) < MaxRepoTasks /\ RepoAdd(t)
  \/ NextId <= MaxRepoTasks /\ RepoNextId
  \/ RepoAddCategory(W)
  \/ \E i \in REPO_IDS \cup {999}, kw \in UPDATE_KWARGS : RepoUpdate(i, kw)
  \/ \E i \in REPO_IDS \cup {999} : RepoDelete(i)
  \/ \E i \in REPO_IDS \cup {999} : DeleteTask(i)
  \/ RepoListAll
  \/ \E m \in LIST_METHODS : CallerMutates(m)

RepoTaskSpec == Init /\ [][RepoTaskNext]_vars

Initialised(st) == DOMAIN st = {TASKS_KEY, NEXT_ID_KEY, CATEGORIES_KEY}

HasId(ts, task_id) == \E i \in 1..Len(ts) : ts[i].id = task_id

\* the task with the fields named in kwargs overridden
Overridden(task, kwargs) ==
  [f \in DOMAIN task |-> IF f \in DOMAIN kwargs THEN kwargs[f] ELSE task[f]]

\* C12: update(id, fields) replaces the task with that id by one whose named
\* fields take the given values and whose id and unnamed fields are kept; the
\* other tasks, the order, the categories and the id counter are unchanged;
\* when no task has that id the whole state is unchanged.
C12_UpdateFrame ==
  [][ (last'.op = "repo.update")
        => LET task_id == last'.args[1]
               kwargs == last'.args[2]
               before == list_all(state)
               after == list_all(state')
           IN /\ Len(after) = Len(before)
              /\ \A i \in 1..Len(before) :
                   /\ after[i].id = before[i].id
                   /\ after[i] = IF before[i].id = task_id
                                 THEN Overridden(before[i], kwargs) ELSE before[i]
              /\ list_categories(state') = list_categories(state)
              /\ ensure_initialized(state')[NEXT_ID_KEY] = ensure_initialized(state)[NEXT_ID_KEY]
              /\ ~HasId(before, task_id)
                   => /\ after = before
                      /\ Initialised(state) => state' = state ]_vars

\* update(id, done=True) on the second of two tasks, with a category stored
\* and the counter advanced
C12_Witness ==
  /\ last.op = "repo.update" /\ last.args = <<2, [done |-> TRUE]>>
  /\ Len(Todos) = 2 /\ Todos[1].id = 1 /\ ~Todos[1].done
  /\ Todos[2] = Task(2, <<"a">>, TRUE, D1, W, Hoch)
  /\ Categories = <<W>> /\ Counter > 1

\* C14: delete(id) and delete_task(id) remove exactly the task with that id,
\* keep the other tasks in their order and leave the categories and the id
\* counter unchanged; for an id that no task has nothing changes.
C14_DeleteFrame ==
  [][ (last'.op \in {"repo.delete", "delete_task"})
        => LET task_id == last'.args[1]
               before == list_all(state)
               after == list_all(state')
           IN /\ after = SelectSeq(before, LAMBDA t : t.id # task_id)
              /\ list_categories(state') = list_categories(state)
              /\ ensure_initialized(state')[NEXT_ID_KEY] = ensure_initialized(state)[NEXT_ID_KEY]
              /\ ~HasId(before, task_id)
                   => /\ after = before
                      /\ Initialised(state) => state' = state ]_vars

\* delete(1) has left the updated task 2, the category and the counter
C14_Witness ==
  /\ last.op = "repo.delete" /\ last.args = <<1>>
  /\ Len(Todos) = 1 /\ Todos[1].id = 2 /\ Todos[1].done
  /\ Categories = <<W>> /\ Counter > 1

\* C18: the list that list_all returns is a copy: appending to it, removing
\* from it or reordering it leaves the stored task list as it was, so a later
\* list_all returns the same tasks as before the mutation.
C18_SnapshotReads ==
  [][ (last'.op \in LIST_METHODS)
        => /\ list_all(state') = list_all(state)
           /\ list_all(state') = last.out.items ]_vars

\* the caller has reversed a list of two different tasks
C18_Witness ==
  /\ last.op = "list.reverse"
  /\ Len(Todos) = 2 /\ Todos[1] # Todos[2]
  /\ last.out.items = <<Todos[2], Todos[1]>>

-----------------------------------------------------------------------------
(* The life of a task in the service: created, done and not done, filtered, *)
(* counted, deleted                                                          *)

\* TaskSpec: add_task is not called once the id counter exceeds MaxLife.
MaxLife == 3

LIFE_IDS == 1..(MaxLife + 1)

FILTER_ARGS == {FILTER_ALL, FILTER_OPEN, FILTER_DONE, <<"x">>}

GetFilteredTasks(filter_value) ==
  LET r == service_get_filtered_tasks(state, filter_value)
  IN /\ state' = r.st
     /\ last' = Returned("get_filtered_tasks", <<filter_value>>, "list", Out(list_copy(r.ret), <<>>))
     /\ UNCHANGED issued

GetTaskCounts ==
  LET r == service_get_task_counts(state)
  IN /\ state' = r.st
     /\ last' = Returned("get_task_counts", <<>>, "tuple", Out(NoList, r.ret))
     /\ UNCHANGED issued

TaskNext ==
  \/ Initialize
  \/ AddCategory(W)
  \/ NextId <= MaxLife /\ AddTask(<<"a">>, D1, W, Hoch)
  \/ \E i \in LIFE_IDS, b \in BOOLEAN : SetDone(i, b)
  \/ \E i \in LIFE_IDS : DeleteTask(i)
  \/ \E f \in FILTER_ARGS : GetFilteredTasks(f)
  \/ GetTaskCounts

TaskSpec == Init /\ [][TaskNext]_vars

\* C13: after initialize, add_task with a valid title, a due date, a category
\* and a priority appends one task with done = False (to an empty list:
\* exactly one task); set_done(id, d) sets done of that task to d, as often as
\* it is called, and changes neither its other fields nor any other task;
\* delete_task(id) of the only task leaves an empty list.
C13_Lifecycle ==
  [][ LET a == last'.args
          before == list_all(state)
          after == list_all(state')
      IN /\ (last'.op = "initialize" /\ state = <<>>) => after = <<>>
         /\ (last'.op = "add_task" /\ last'.ret = "True")
              => after = Append(before,
                                Task(Counter, Trimmed(a[1]), FALSE, a[2],
                                     IF InSeq(Trimmed(a[3]), Categories) THEN Trimmed(a[3]) ELSE Null,
                                     Normalised(a[4])))
         /\ (last'.op = "set_done")
              => /\ Len(after) = Len(before)
                 /\ \A i \in 1..Len(before) :
                      after[i] = IF before[i].id = a[1]
                                 THEN [before[i] EXCEPT !.done = a[2]] ELSE before[i]
         /\ (last'.op = "delete_task" /\ Len(before) = 1 /\ before[1].id = a[1])
              => after = <<>> ]_vars

\* the only task, created with a due date, a category and a priority, is done
C13_Witness ==
  /\ last.op = "set_done" /\ last.args = <<1, TRUE>>
  /\ Todos = <<Task(1, <<"a">>, TRUE, D1, W, Hoch)>>

\* C15: get_filtered_tasks("Offen") is the subsequence of the tasks that are
\* not done, get_filtered_tasks("Erledigt") the subsequence of those that are,
\* both in the order of the list; "Alle" and any other value give all tasks;
\* get_task_counts() is (total, open, done) with total = open + done = the
\* length of the list.
C15_FilterAndCounts ==
  [][ LET tasks == list_all(state)
          r == last'.out.items
          n == last'.out.ints
      IN /\ (last'.op = "get_filtered_tasks")
              => LET f == last'.args[1]
                 IN /\ f = <<"O", "f", "f", "e", "n">>
                         => r = SelectSeq(tasks, LAMBDA t : ~t.done)
                    /\ f = <<"E", "r", "l", "e", "d", "i", "g", "t">>
                         => r = SelectSeq(tasks, LAMBDA t : t.done)
                    /\ f \notin {<<"O", "f", "f", "e", "n">>, <<"E", "r", "l", "e", "d", "i", "g", "t">>}
                         => r = tasks
                    /\ list_all(state') = tasks
         /\ (last'.op = "get_task_counts")
              => /\ n = <<Len(tasks),
                          Cardinality({i \in 1..Len(tasks) : ~tasks[i].done}),
                          Cardinality({i \in 1..Len(tasks) : tasks[i].done})>>
                 /\ n[1] = n[2] + n[3]
                 /\ list_all(state') = tasks ]_vars

\* "Offen" has returned the first and the third of three tasks
C15_Witness ==
  /\ last.op = "get_filtered_tasks" /\ last.args = <<FILTER_OPEN>>
  /\ Len(Todos) = 3 /\ ~Todos[1].done /\ Todos[2].done /\ ~Todos[3].done
  /\ last.out.items = <<Todos[1], Todos[3]>>

\* C19: on an empty session state ensure_initialized creates an empty task
\* list, the id counter 1 and an empty category list; in an initialised state
\* it changes nothing, whether called by initialize or at the start of a
\* repository method, so that no call resets the counter.
C19_LazyInitialisation ==
  [][ /\ (last'.op = "initialize" /\ state = <<>>)
           => state' = [k \in {TASKS_KEY, NEXT_ID_KEY, CATEGORIES_KEY} |->
                          IF k = NEXT_ID_KEY THEN 1 ELSE <<>>]
      /\ (last'.op = "initialize" /\ Initialised(state)) => state' = state
      /\ Initialised(state)
           => /\ ensure_initialized(state) = state
              /\ Initialised(state')
              /\ state'[NEXT_ID_KEY] >= state[NEXT_ID_KEY] ]_vars

\* initialize was called with a task and a category stored and the counter
\* advanced
C19_Witness ==
  /\ last.op = "initialize"
  /\ Len(Todos) > 0 /\ Categories = <<W>> /\ Counter > 1

-----------------------------------------------------------------------------
(* update_task with every combination of values and flags *)

\* UpdSpec: add_task is not called once the id counter exceeds MaxUpd.
MaxUpd == 2

\* (title, due_date, category, priority, update_due_date, update_priority)
UPDATE_ARGS ==
  {<<Null, d, Null, p, ud, up>> :
     d \in {Null, D1}, p \in {Null, <<"h", "o", "c", "h">>}, ud \in BOOLEAN, up \in BOOLEAN}
  \cup {<<<<" ">>, Null, Null, Null, FALSE, FALSE>>,
        <<<<" ">>, Null, W, Null, TRUE, TRUE>>,
        <<<<>>, D1, W, <<"h", "o", "c", "h">>, TRUE, TRUE>>,
        <<<<"b", " ">>, Null, Null, Null, TRUE, FALSE>>}

UpdNext ==
  \/ NextId <= MaxUpd /\ AddTask(<<"a">>, D1, Null, Hoch)
  \/ \E i \in 1..MaxUpd, a \in UPDATE_ARGS : UpdateTask(i, a[1], a[2], a[3], a[4], a[5], a[6])

UpdSpec == Init /\ [][UpdNext]_vars

\* C16: when update_task is given a title that is empty after trimming it
\* returns False and writes nothing, whatever due_date, category, priority
\* and flags come with it.
C16_UpdateTaskAllOrNothing ==
  [][ (last'.op = "update_task" /\ last'.args[2] # Null /\ Blank(last'.args[2]))
        => /\ last'.ret = "False"
           /\ SameStores ]_vars

\* a blank title came with a category and both flags set: the task is as
\* add_task stored it
C16_Witness ==
  /\ last.op = "update_task" /\ last.ret = "False"
  /\ last.args = <<1, <<" ">>, Null, W, Null, TRUE, TRUE>>
  /\ Len(Todos) > 0 /\ Todos[1] = Task(1, <<"a">>, FALSE, D1, Null, Hoch)

\* C17: update_task changes the due_date of a task only when update_due_date
\* is true and its priority only when update_priority is true; with the flag
\* false the stored field keeps its value whatever argument is passed; a call
\* that succeeds with the flag true stores the argument, None included.
C17_UpdateTaskFlags ==
  [][ (last'.op = "update_task")
        => LET a == last'.args
               before == list_all(state)
               after == list_all(state')
           IN /\ Len(after) = Len(before)
              /\ \A i \in 1..Len(before) :
                   /\ after[i].due_date # before[i].due_date => a[6]
                   /\ after[i].priority # before[i].priority => a[7]
                   /\ (last'.ret = "True" /\ before[i].id = a[1])
                        => /\ after[i].due_date = IF a[6] THEN a[3] ELSE before[i].due_date
                           /\ after[i].priority = IF a[7] THEN Normalised(a[5])
                                                  ELSE before[i].priority
                   /\ before[i].id # a[1] => after[i] = before[i] ]_vars

\* the due date was cleared by the flag and None, the priority was kept
\* although "hoch" was passed
C17_Witness ==
  /\ last.op = "update_task" /\ last.ret = "True"
  /\ last.args = <<1, Null, Null, Null, <<"h", "o", "c", "h">>, TRUE, FALSE>>
  /\ Len(Todos) > 0 /\ Todos[1].due_date = Null /\ Todos[1].priority = Null

-----------------------------------------------------------------------------
(* The category list as the service returns it *)

SORT_NAMES == {<<"b">>, <<"A", "b">>, <<"C">>, <<"a">>}

\* cats = self._repo.list_categories(); cats.sort(key=...); return cats
ListCategories ==
  LET cats == list_copy(list_categories(state))
      sorted == sort_by_lower(cats.items)
      s == ensure_initialized(state)
  IN /\ state' = IF cats.alias THEN Put(s, CATEGORIES_KEY, sorted) ELSE s
     /\ last' = Returned("list_categories", <<>>, "list", Out([cats EXCEPT !.items = sorted], <<>>))
     /\ UNCHANGED issued

SortNext ==
  \/ \E n \in SORT_NAMES : AddCategory(n)
  \/ \E n \in SORT_NAMES : DeleteCategory(n)
  \/ ListCategories

SortSpec == Init /\ [][SortNext]_vars

\* the letters of SORT_NAMES in alphabetical order, both cases together
ALPHABET == <<{"a", "A"}, {"b", "B"}, {"c", "C"}>>

Rank(c) == CHOOSE i \in 1..Len(ALPHABET) : c \in ALPHABET[i]

\* x comes strictly before y in the alphabet when case is ignored
RECURSIVE BeforeIgnoringCase(_, _)
BeforeIgnoringCase(x, y) ==
  IF y = <<>> THEN FALSE
  ELSE IF x = <<>> THEN TRUE
  ELSE IF Rank(Head(x)) = Rank(Head(y)) THEN BeforeIgnoringCase(Tail(x), Tail(y))
  ELSE Rank(Head(x)) < Rank(Head(y))

\* C20: the service's list_categories returns exactly the names of the
\* category store, in alphabetical order ignoring case, computed from the
\* store as it is at the call; the call leaves the order of the store, as the
\* repository's list_categories returns it, unchanged.
C20_SortedCategories ==
  [][ (last'.op = "list_categories")
        => LET store == list_categories(state)
               r == last'.out.items
           IN /\ Len(r) = Len(store)
              /\ Range(r) = Range(store)
              /\ \A i, j \in 1..Len(r) : i < j => ~BeforeIgnoringCase(r[j], r[i])
              /\ list_categories(state') = store ]_vars

\* the store holds b, C, a, Ab in that order; the service has returned
\* a, Ab, b, C
C20_Witness ==
  /\ last.op = "list_categories"
  /\ Categories = <<<<"b">>, <<"C">>, <<"a">>, <<"A", "b">>>>
  /\ last.out.items = <<<<"a">>, <<"A", "b">>, <<"b">>, <<"C">>>>

-----------------------------------------------------------------------------
(* TaskAdapter and BidirectionalTaskAdapter.  self is the adapter with its *)
(* field _id_offset and the hash seed of the process it lives in; a date   *)
(* is the tuple <<year, month, day>>.                                      *)

ID_OFFSET == 10000

HASH_MODULUS == 100000

\* str.split("-")[-1]: what follows the last "-", the whole str without one
split_last(s) ==
  LET dashes == {i \in 1..Len(s) : s[i] = "-"}
      k == IF dashes = {} THEN 0 ELSE CHOOSE i \in dashes : \A j \in dashes : j <= i
  IN SubSeq(s, k + 1, Len(s))

digit(c) == (CHOOSE i \in 1..Len(DIGITS) : DIGITS[i] = c) - 1

RECURSIVE digits_value(_, _)
digits_value(s, acc) ==
  IF s = <<>> THEN acc
  ELSE IF Head(s) = "_" THEN digits_value(Tail(s), acc)
  ELSE digits_value(Tail(s), 10 * acc + digit(Head(s)))

\* int(s): ok = FALSE stands for ValueError.  Surrounding whitespace and a
\* sign are allowed, and single underscores between digits.
int(s0) ==
  LET s == strip(s0)
      signed == s # <<>> /\ Head(s) \in {"+", "-"}
      body == IF signed THEN Tail(s) ELSE s
      ok == /\ body # <<>>
            /\ \A i \in 1..Len(body) : body[i] \in Range(DIGITS) \cup {"_"}
            /\ body[1] # "_" /\ body[Len(body)] # "_"
            /\ \A i \in 1..(Len(body) - 1) : ~(body[i] = "_" /\ body[i + 1] = "_")
  IN IF ~ok THEN [ok |-> FALSE, value |-> 0]
     ELSE [ok |-> TRUE,
           value |-> IF signed /\ Head(s) = "-" THEN 0 - digits_value(body, 0)
                     ELSE digits_value(body, 0)]

abs(n) == IF n < 0 THEN 0 - n ELSE n

\* hash(s) of a str: a number fixed by the str and the seed of the process,
\* of either sign
RECURSIVE hash_loop(_, _, _)
hash_loop(seed, s, h) ==
  IF s = <<>> THEN h
  ELSE hash_loop(seed, Tail(s), (31 * h + ord(Head(s)) + 7919 * seed) % 1000003)

hash(seed, s) ==
  LET h == hash_loop(seed, s, seed)
  IN IF h % 2 = 1 THEN 0 - h ELSE h

convert_id(self, external_id) ==
  LET num_part == split_last(external_id)
      parsed == int(num_part)
  IN IF parsed.ok THEN parsed.value + self.id_offset
     ELSE (abs(hash(self.hash_seed, external_id)) % HASH_MODULUS) + self.id_offset

\* the number written in s[a..b], -1 when one of the characters is no digit
number(s, a, b) ==
  IF b <= Len(s) /\ \A i \in a..b : s[i] \in Range(DIGITS)
  THEN digits_value(SubSeq(s, a, b), 0) ELSE 0 - 1

days_in_month(year, month) ==
  IF month \in {4, 6, 9, 11} THEN 30
  ELSE IF month # 2 THEN 31
  ELSE IF year % 4 = 0 /\ (year % 100 # 0 \/ year % 400 = 0) THEN 29
  ELSE 28

\* datetime.fromisoformat(s).date(): ok = FALSE stands for ValueError.
\* YYYY-MM-DD alone or followed by one separator character and HH, HH:MM or
\* HH:MM:SS; fractions of a second and UTC offsets are left out.
fromisoformat_date(s) ==
  LET year == number(s, 1, 4)
      month == number(s, 6, 7)
      day == number(s, 9, 10)
      hour == number(s, 12, 13)
      minute == number(s, 15, 16)
      second == number(s, 18, 19)
      date_ok == /\ Len(s) >= 10 /\ s[5] = "-" /\ s[8] = "-"
                 /\ year >= 1 /\ month \in 1..12
                 /\ day >= 1 /\ day <= days_in_month(year, month)
      time_ok == \/ Len(s) = 10
                 \/ /\ Len(s) \in {13, 16, 19}
                    /\ hour \in 0..23
                    /\ Len(s) >= 16 => (s[14] = ":" /\ minute \in 0..59)
                    /\ Len(s) = 19 => (s[17] = ":" /\ second \in 0..59)
  IN IF date_ok /\ time_ok THEN [ok |-> TRUE, value |-> <<year, month, day>>]
     ELSE [ok |-> FALSE, value |-> Null]

\* as convert_due_date, without the except clause: <<"ValueError">> stands
\* for the exception that leaves the method
convert_due_date_raises(due) ==
  IF due = Null \/ due = <<>> THEN Null
  ELSE LET parsed == fromisoformat_date(due)
       IN IF parsed.ok THEN parsed.value ELSE <<"ValueError">>

convert_due_date(due) ==
  IF due = Null \/ due = <<>> THEN Null
  ELSE LET parsed == fromisoformat_date(due)
       IN IF parsed.ok THEN parsed.value ELSE Null

\* as URGENCY_TO_PRIORITY, with 2 in the middle
URGENCY_TO_PRIORITY_2_middle == <<Niedrig, Mittel, Mittel, Hoch, Hoch>>

URGENCY_TO_PRIORITY == <<Niedrig, Niedrig, Mittel, Hoch, Hoch>>

PRIORITY_TO_URGENCY ==
  [p \in {Niedrig, Mittel, Hoch} |-> IF p = Niedrig THEN 2 ELSE IF p = Mittel THEN 3 ELSE 4]

\* as convert_urgency, with the lowest priority for an urgency the table
\* does not have
convert_urgency_default_low(urgency) ==
  IF urgency \in DOMAIN URGENCY_TO_PRIORITY THEN URGENCY_TO_PRIORITY[urgency] ELSE Niedrig

convert_urgency(urgency) ==
  IF urgency \in DOMAIN URGENCY_TO_PRIORITY THEN URGENCY_TO_PRIORITY[urgency] ELSE Mittel

ExternalTodoItem(item_id, name, is_completed, due, urgency, label) ==
  [item_id |-> item_id, name |-> name, is_completed |-> is_completed, due |-> due,
   urgency |-> urgency, label |-> label]

adapt(self, external) ==
  Task(convert_id(self, external.item_id),
       external.name,
       external.is_completed,
       convert_due_date(external.due),
       external.label,
       convert_urgency(external.urgency))

\* str(n) of an int
RECURSIVE str_nat(_)
str_nat(n) ==
  IF n < 10 THEN <<DIGITS[n + 1]>> ELSE str_nat(n \div 10) \o <<DIGITS[(n % 10) + 1]>>

str(n) == IF n < 0 THEN <<"-">> \o str_nat(0 - n) ELSE str_nat(n)

\* n in at least width digits, zeros in front
zero_padded(n, width) ==
  LET digits == str_nat(n)
  IN [i \in 1..(width - Len(digits)) |-> "0"] \o digits

\* as isoformat_midnight, with the numbers as str() writes them
isoformat_unpadded(d) ==
  str(d[1]) \o <<"-">> \o str(d[2]) \o <<"-">> \o str(d[3])
    \o <<"T", "0", "0", ":", "0", "0", ":", "0", "0">>

\* datetime.combine(d, datetime.min.time()).isoformat()
isoformat_midnight(d) ==
  zero_padded(d[1], 4) \o <<"-">> \o zero_padded(d[2], 2) \o <<"-">> \o zero_padded(d[3], 2)
    \o <<"T", "0", "0", ":", "0", "0", ":", "0", "0">>

\* as to_external, with the urgency of the highest priority for a priority
\* the table does not have
to_external_default_high(self, task, external_id0) ==
  ExternalTodoItem(IF external_id0 = Null THEN <<"E", "X", "T", "-">> \o str(task.id)
                   ELSE external_id0,
                   task.title,
                   task.done,
                   IF task.due_date # Null THEN isoformat_midnight(task.due_date) ELSE Null,
                   IF task.priority \in DOMAIN PRIORITY_TO_URGENCY
                   THEN PRIORITY_TO_URGENCY[task.priority] ELSE 4,
                   task.category)

to_external(self, task, external_id0) ==
  LET external_id == IF external_id0 = Null THEN <<"E", "X", "T", "-">> \o str(task.id)
                     ELSE external_id0
      due_str == IF task.due_date # Null THEN isoformat_midnight(task.due_date) ELSE Null
  IN ExternalTodoItem(external_id,
                      task.title,
                      task.done,
                      due_str,
                      IF task.priority \in DOMAIN PRIORITY_TO_URGENCY
                      THEN PRIORITY_TO_URGENCY[task.priority] ELSE 3,
                      task.category)

-----------------------------------------------------------------------------
(* The adapter's methods applied to external ids, due strings, urgencies,  *)
(* external items and tasks, and to each other's results                    *)

\* AdapterSpec: a result is handed to the opposite conversion as long as the
\* chain of values that began with a chosen item or task is shorter than
\* MaxChain.
MaxChain == 5

\* an adapter with the default offset and one with another, in processes of
\* different hash seeds
ADAPTERS == {[id_offset |-> ID_OFFSET, hash_seed |-> 0], [id_offset |-> 500, hash_seed |-> 1]}

EXTERNAL_IDS ==
  {<<"E", "X", "T", "-", "1", "0", "0", "0">>,
   <<"E", "X", "T", "-", "1">>,
   <<"A", "-", "B", "-", "7">>,
   <<"E", "X", "T", "-">>,
   <<"E", "X", "T", "-", "x">>,
   <<"E", "X", "T">>,
   <<>>,
   <<"1", "0", "0", "0">>,
   <<"x", "1">>}

DUE_ARGS ==
  {Null,
   <<>>,
   <<"2", "0", "2", "5", "-", "0", "6", "-", "1", "5", "T", "0", "0", ":", "0", "0", ":", "0", "0">>,
   <<"2", "0", "2", "5", "-", "0", "6", "-", "1", "5">>,
   <<"2", "0", "2", "4", "-", "0", "2", "-", "2", "9", "T", "2", "3", ":", "5", "9", ":", "5", "9">>,
   <<"2", "0", "2", "5", "-", "0", "2", "-", "2", "9", "T", "0", "0", ":", "0", "0", ":", "0", "0">>,
   <<"2", "0", "2", "5", "-", "1", "3", "-", "0", "1">>,
   <<"m", "o", "r", "g", "e", "n">>,
   <<"2", "0", "2", "5", "-", "0", "6", "-", "1", "5", "T", "2", "5", ":", "0", "0", ":", "0", "0">>,
   <<"1", "5", ".", "0", "6", ".", "2", "0", "2", "5">>}

URGENCIES == (0 - 1)..7 \cup {99}

EXTERNAL_ITEMS ==
  {ExternalTodoItem(i, <<"T", "e", "s", "t">>, d = Null, d, u, IF d = Null THEN <<"H", "a", "u", "s", "h", "a", "l", "t">> ELSE Null) :
     i \in {<<"E", "X", "T", "-", "1", "0", "0", "0">>, <<"E", "X", "T", "-", "x">>},
     d \in {Null, <<"2", "0", "2", "5", "-", "0", "6", "-", "1", "5", "T", "0", "0", ":", "0", "0", ":", "0", "0">>, <<"m", "o", "r", "g", "e", "n">>},
     u \in {0, 1, 2, 3, 4, 5, 6, 99}}

INTERNAL_TASKS ==
  {Task(i, <<"I", "n", "t", "e", "r", "n", "e", "r", " ", "T", "a", "s", "k">>, d = Null, d, IF p = Null THEN Null ELSE <<"A", "r", "b", "e", "i", "t">>, p) :
     i \in {0 - 5, 0, 1, 42},
     d \in {Null, <<2025, 7, 1>>, <<987, 12, 31>>},
     p \in {Null, Niedrig, Mittel, Hoch, <<"h", "o", "c", "h">>}}

AdapterInit ==
  /\ state \in ADAPTERS
  /\ last = Called("construct", <<>>, "None")
  /\ issued = <<>>

ConvertId(external_id) ==
  /\ last' = Returned("convert_id", <<external_id>>, "int", convert_id(state, external_id))
  /\ issued' = <<>>
  /\ UNCHANGED state

ConvertDueDate(due) ==
  /\ last' = Returned("convert_due_date", <<due>>, "date", convert_due_date(due))
  /\ issued' = <<>>
  /\ UNCHANGED state

ConvertUrgency(urgency) ==
  /\ last' = Returned("convert_urgency", <<urgency>>, "str", convert_urgency(urgency))
  /\ issued' = <<>>
  /\ UNCHANGED state

\* chain: the values that led to external, external included
Adapt(external, chain) ==
  /\ last' = Returned("adapt", <<external>>, "Task", adapt(state, external))
  /\ issued' = Append(chain, adapt(state, external))
  /\ UNCHANGED state

\* chain: the values that led to task, task included
ToExternal(task, external_id, chain) ==
  /\ last' = Returned("to_external", <<task, external_id>>, "ExternalTodoItem",
                      to_external(state, task, external_id))
  /\ issued' = Append(chain, to_external(state, task, external_id))
  /\ UNCHANGED state

AdapterNext ==
  \/ \E i \in EXTERNAL_IDS : ConvertId(i)
  \/ \E d \in DUE_ARGS : ConvertDueDate(d)
  \/ \E u \in URGENCIES : ConvertUrgency(u)
  \/ \E e \in EXTERNAL_ITEMS : Adapt(e, <<e>>)
  \/ last.op = "to_external" /\ Len(issued) < MaxChain /\ Adapt(last.out, issued)
  \/ \E t \in INTERNAL_TASKS, x \in {Null, <<"X", "-", "5">>} : ToExternal(t, x, <<t>>)
  \/ last.op = "adapt" /\ Len(issued) < MaxChain /\ ToExternal(last.out, Null, issued)

AdapterSpec == AdapterInit /\ [][AdapterNext]_vars

\* the value the fallback of convert_id gives for an external id
Fallback(self, external_id) ==
  (abs(hash(self.hash_seed, external_id)) % 100000) + self.id_offset

HasDash(s) == \E i \in 1..Len(s) : s[i] = "-"

NumericSuffix(s) ==
  LET suffix == split_last(s)
  IN suffix # <<>> /\ \A i \in 1..Len(suffix) : suffix[i] \in Range(DIGITS)

\* C21: convert_id returns the integer written after the last "-" plus the
\* offset ("EXT-1000" gives 11000 with the offset 10000), and the fallback
\* |hash(id)| mod 100000 plus the offset for every external id whose suffix
\* is not numeric or that has no "-" at all.
C21_AdapterIdMapping ==
  (last.op = "convert_id")
    => LET external_id == last.args[1]
       IN /\ (HasDash(external_id) /\ NumericSuffix(external_id))
               => last.out = digits_value(split_last(external_id), 0) + state.id_offset
          /\ (external_id = <<"E", "X", "T", "-", "1", "0", "0", "0">> /\ state.id_offset = 10000)
               => last.out = 11000
          /\ (~HasDash(external_id) \/ ~NumericSuffix(external_id))
               => last.out = Fallback(state, external_id)

\* C22: convert_urgency maps 1 and 2 to Niedrig, 3 to Mittel, 4 and 5 to
\* Hoch and every other integer to Mittel; adapt stores this value as the
\* priority of the task.
C22_UrgencyTable ==
  LET Expected(u) ==
        CASE u \in {1, 2} -> <<"N", "i", "e", "d", "r", "i", "g">>
          [] u \in {4, 5} -> <<"H", "o", "c", "h">>
          [] OTHER -> <<"M", "i", "t", "t", "e", "l">>
  IN /\ (last.op = "convert_urgency") => last.out = Expected(last.args[1])
     /\ (last.op = "adapt") => last.out.priority = Expected(last.args[1].urgency)

\* an item of urgency 99 was adapted to a task of priority Mittel
C22_Witness ==
  /\ last.op = "adapt" /\ last.args[1].urgency = 99
  /\ last.out.priority = Mittel

\* a date: a year, a month and a day of that month
IsDate(d) ==
  /\ Len(d) = 3 /\ d[1] >= 1 /\ d[2] \in 1..12
  /\ d[3] \in 1..(IF d[2] = 2 THEN 29 ELSE 31)

\* C23: convert_due_date returns None for None and for the empty string, the
\* date of a parseable ISO datetime string and None for any other string,
\* and raises nothing, so that adapt produces a task for every item.
C23_DueDateNeverFails ==
  /\ (last.op = "convert_due_date")
       => LET due == last.args[1]
              r == last.out
          IN /\ r = Null \/ IsDate(r)
             /\ (due = Null \/ due = <<>>) => r = Null
             /\ r # Null
                  => /\ number(due, 1, 4) = r[1]
                     /\ number(due, 6, 7) = r[2]
                     /\ number(due, 9, 10) = r[3]
             /\ due = <<"2", "0", "2", "5", "-", "0", "6", "-", "1", "5", "T", "0", "0", ":", "0", "0", ":", "0", "0">>
                  => r = <<2025, 6, 15>>
             /\ due = <<"2", "0", "2", "4", "-", "0", "2", "-", "2", "9", "T", "2", "3", ":", "5", "9", ":", "5", "9">>
                  => r = <<2024, 2, 29>>
             /\ due \in {<<"m", "o", "r", "g", "e", "n">>,
                         <<"2", "0", "2", "5", "-", "1", "3", "-", "0", "1">>,
                         <<"2", "0", "2", "5", "-", "0", "2", "-", "2", "9", "T", "0", "0", ":", "0", "0", ":", "0", "0">>,
                         <<"2", "0", "2", "5", "-", "0", "6", "-", "1", "5", "T", "2", "5", ":", "0", "0", ":", "0", "0">>,
                         <<"1", "5", ".", "0", "6", ".", "2", "0", "2", "5">>}
                  => r = Null
  /\ (last.op = "adapt")
       => /\ DOMAIN last.out = {"id", "title", "done", "due_date", "category", "priority"}
          /\ last.out.due_date = Null \/ IsDate(last.out.due_date)
          /\ (last.args[1].due = Null \/ last.args[1].due = <<>>) => last.out.due_date = Null

\* an item whose due string is no date was adapted to a task without a date
C23_Witness ==
  /\ last.op = "adapt" /\ last.args[1].due = <<"m", "o", "r", "g", "e", "n">>
  /\ last.out.due_date = Null /\ last.out.title = last.args[1].name

\* C24: to_external copies title to name, done to is_completed and category
\* to label; item_id is the external id supplied, "EXT-" followed by the
\* task's id without one; urgency is 2 for Niedrig, 3 for Mittel, 4 for Hoch
\* and 3 for None and every other priority; due is None for a task without
\* due date and the ISO string of the date at midnight with one.
C24_ReverseMapping ==
  (last.op = "to_external")
    => LET task == last.args[1]
           external_id == last.args[2]
           r == last.out
       IN /\ r.name = task.title
          /\ r.is_completed = task.done
          /\ r.label = task.category
          /\ external_id # Null => r.item_id = external_id
          /\ external_id = Null
               => /\ SubSeq(r.item_id, 1, 4) = <<"E", "X", "T", "-">>
                  /\ r.item_id = <<"E", "X", "T", "-">> \o str(task.id)
                  /\ task.id = 42 => r.item_id = <<"E", "X", "T", "-", "4", "2">>
          /\ r.urgency = (CASE task.priority = <<"N", "i", "e", "d", "r", "i", "g">> -> 2
                            [] task.priority = <<"H", "o", "c", "h">> -> 4
                            [] OTHER -> 3)
          /\ task.due_date = Null => r.due = Null
          /\ task.due_date # Null
               => /\ Len(r.due) = 19
                  /\ number(r.due, 1, 4) = task.due_date[1] /\ r.due[5] = "-"
                  /\ number(r.due, 6, 7) = task.due_date[2] /\ r.due[8] = "-"
                  /\ number(r.due, 9, 10) = task.due_date[3]
                  /\ SubSeq(r.due, 11, 19) = <<"T", "0", "0", ":", "0", "0", ":", "0", "0">>

\* a task of id 42 with the priority "hoch", which is none of the three, and
\* a due date was converted without an external id
C24_Witness ==
  /\ last.op = "to_external" /\ last.args[2] = Null
  /\ last.args[1].id = 42 /\ last.args[1].priority = <<"h", "o", "c", "h">>
  /\ last.args[1].due_date = <<2025, 7, 1>>
  /\ last.out.urgency = 3

\* C25: for a task t with an id that is not negative, adapt(to_external(t))
\* has the title, done, due_date and category of t and the id of t plus the
\* offset; its priority is that of t when that is Niedrig, Mittel or Hoch,
\* and Mittel when t has none.
C25_InternalRoundTrip ==
  [][ (/\ last.op = "to_external" /\ last.args[2] = Null
       /\ last'.op = "adapt" /\ last'.args[1] = last.out
       /\ last.args[1].id >= 0)
        => LET t == last.args[1]
               r == last'.out
           IN /\ r.title = t.title
              /\ r.done = t.done
              /\ r.due_date = t.due_date
              /\ r.category = t.category
              /\ r.id = t.id + state.id_offset
              /\ t.priority \in PRIORITIES => r.priority = t.priority
              /\ t.priority = Null => r.priority = Mittel ]_vars

\* a task of the year 987 with priority Hoch went out and came back
C25_Witness ==
  /\ last.op = "adapt" /\ Len(issued) = 3
  /\ issued[1] \in INTERNAL_TASKS /\ issued[1].id = 42
  /\ issued[1].due_date = <<987, 12, 31>> /\ issued[1].priority = Hoch
  /\ issued[2].item_id = <<"E", "X", "T", "-", "4", "2">>
  /\ issued[3].due_date = <<987, 12, 31>>

\* C26: for an external item e, to_external(adapt(e)).urgency is 2 when
\* e.urgency is 1 or 2, 4 when it is 4 or 5 and 3 otherwise, so it is never 1
\* or 5; a second round trip gives the urgency of the first.
C26_UrgencyLossy ==
  [][ (/\ last.op = "adapt"
       /\ last'.op = "to_external" /\ last'.args[1] = last.out)
        => LET e == last.args[1]
               r == last'.out
           IN /\ e.urgency \in {1, 2} => r.urgency = 2
              /\ e.urgency \in {4, 5} => r.urgency = 4
              /\ e.urgency \notin {1, 2, 4, 5} => r.urgency = 3
              /\ r.urgency \notin {1, 5}
              /\ Len(issued') = 5 => issued'[5].urgency = issued'[3].urgency ]_vars

\* an item of urgency 5 has made two round trips and has urgency 4
C26_Witness ==
  /\ last.op = "to_external" /\ Len(issued) = 5
  /\ issued[1] \in EXTERNAL_ITEMS /\ issued[1].urgency = 5
  /\ issued[3].urgency = 4 /\ issued[5].urgency = 4


-----------------------------------------------------------------------------
(* The category calls of the service and of the repository, refused and    *)
(* accepted, with a task stored                                            *)

\* FailSpec: add_task is not called once the id counter exceeds MaxFail.
MaxFail == 1

FAIL_NAMES == {<<"A">>, <<"B">>, <<"C">>, <<"D">>, <<"E">>, <<"F">>}

FailNext ==
  \/ \E n \in FAIL_NAMES \cup {<<" ">>} : AddCategory(n)
  \/ \E n \in {<<"A">>, <<" ", "B">>, Null} : RenameCategory(<<"A">>, n)
  \/ \E n \in {<<"F">>, <<>>} : DeleteCategory(n)
  \/ NextId <= MaxFail /\ AddTask(<<"t">>, Null, <<"A">>, Null)
  \/ \E n \in {<<"A", " ">>, <<>>} : RepoAddCategory(n)
  \/ \E n \in {<<"A">>, <<"B">>} : RepoRenameCategory(<<"A">>, n)
  \/ \E n \in {<<"F">>, Null} : RepoDeleteCategory(n)

FailSpec == Init /\ [][FailNext]_vars

CATEGORY_CALLS ==
  {"add_category", "rename_category", "delete_category",
   "repo.add_category", "repo.rename_category", "repo.delete_category"}

\* C29: a category call always returns a bool, never raises; when
\* add_category, rename_category or delete_category returns False the category
\* store, every task and the id counter are as before the call; and
\* rename_category(old, old) on a stored category returns True and changes
\* none of them either.
C29_FailedCategoryCallsChangeNothing ==
  [][ last'.op \in CATEGORY_CALLS
        => /\ last'.ret \in {"True", "False"}
           /\ last'.ret = "False" => SameStores
           /\ (/\ last'.op \in {"rename_category", "repo.rename_category"}
               /\ last'.args[1] = last'.args[2]
               /\ InSeq(Trimmed(last'.args[1]), list_categories(state)))
                => (last'.ret = "True" /\ SameStores) ]_vars

\* renaming A to the stored name B was refused while a task carries A
C29_Witness ==
  /\ last.op = "rename_category" /\ last.ret = "False"
  /\ last.args = << <<"A">>, <<" ", "B">> >>
  /\ InSeq(<<"A">>, Categories) /\ InSeq(<<"B">>, Categories)
  /\ \E i \in 1..Len(Todos) : Todos[i].category = <<"A">>

-----------------------------------------------------------------------------
(* src/todo_mvc/model: the repository variant with one method per field    *)

\* DEFAULT_PRIORITY of src/todo_mvc/model/constants.py
MVC_DEFAULT_PRIORITY == Mittel

\* Task(id=, title=, done=, due_date=, category=): priority takes its default
mvc_Task(id, title, done, due_date, category) ==
  Task(id, title, done, due_date, category, MVC_DEFAULT_PRIORITY)

mvc_add(st, task) ==
  LET s == ensure_initialized(st)
  IN Put(s, TASKS_KEY, Append(s[TASKS_KEY], task))

mvc_set_done(st, task_id, done) ==
  LET s == ensure_initialized(st)
      ts == s[TASKS_KEY]
  IN Put(s, TASKS_KEY,
         [i \in 1..Len(ts) |->
            IF ts[i].id = task_id
            THEN mvc_Task(ts[i].id, ts[i].title, done, ts[i].due_date, ts[i].category)
            ELSE ts[i]])

mvc_rename_task(st, task_id, new_title) ==
  LET s == ensure_initialized(st)
      ts == s[TASKS_KEY]
  IN Put(s, TASKS_KEY,
         [i \in 1..Len(ts) |->
            IF ts[i].id = task_id
            THEN mvc_Task(ts[i].id, new_title, ts[i].done, ts[i].due_date, ts[i].category)
            ELSE ts[i]])

mvc_set_due_date(st, task_id, due_date) ==
  LET s == ensure_initialized(st)
      ts == s[TASKS_KEY]
  IN Put(s, TASKS_KEY,
         [i \in 1..Len(ts) |->
            IF ts[i].id = task_id
            THEN mvc_Task(ts[i].id, ts[i].title, ts[i].done, due_date, ts[i].category)
            ELSE ts[i]])

mvc_set_category(st, task_id, category) ==
  LET s == ensure_initialized(st)
      ts == s[TASKS_KEY]
  IN Put(s, TASKS_KEY,
         [i \in 1..Len(ts) |->
            IF ts[i].id = task_id
            THEN mvc_Task(ts[i].id, ts[i].title, ts[i].done, ts[i].due_date, category)
            ELSE ts[i]])

\* returns None on every path
mvc_add_category(st, name0) == add_category(st, name0).st

mvc_rename_category(st, old0, new0) ==
  LET s == ensure_initialized(st)
      old == strip(OrEmpty(old0))
      new == strip(OrEmpty(new0))
      cats == s[CATEGORIES_KEY]
      ts == s[TASKS_KEY]
  IN IF old = <<>> \/ new = <<>> THEN s
     ELSE IF ~InSeq(old, cats) THEN s
     ELSE IF InSeq(new, cats) /\ new # old THEN s
     ELSE Put(Put(s, CATEGORIES_KEY,
                  [i \in 1..Len(cats) |-> IF cats[i] = old THEN new ELSE cats[i]]),
              TASKS_KEY,
              [i \in 1..Len(ts) |->
                 mvc_Task(ts[i].id, ts[i].title, ts[i].done, ts[i].due_date,
                          IF ts[i].category = old THEN new ELSE ts[i].category)])

mvc_delete_category(st, name0) ==
  LET s == ensure_initialized(st)
      name == strip(OrEmpty(name0))
      cats == s[CATEGORIES_KEY]
      ts == s[TASKS_KEY]
  IN IF name = <<>> THEN s
     ELSE IF ~InSeq(name, cats) THEN s
     ELSE Put(Put(s, CATEGORIES_KEY, SelectOther(cats, name)),
              TASKS_KEY,
              [i \in 1..Len(ts) |->
                 mvc_Task(ts[i].id, ts[i].title, ts[i].done, ts[i].due_date,
                          IF ts[i].category = name THEN Null ELSE ts[i].category)])

MvcAdd(task) ==
  /\ state' = mvc_add(state, task)
  /\ last' = Called("mvc.add", <<task>>, "None")
  /\ UNCHANGED issued

MvcSetDone(task_id, done) ==
  /\ state' = mvc_set_done(state, task_id, done)
  /\ last' = Called("mvc.set_done", <<task_id, done>>, "None")
  /\ UNCHANGED issued

MvcRenameTask(task_id, new_title) ==
  /\ state' = mvc_rename_task(state, task_id, new_title)
  /\ last' = Called("mvc.rename_task", <<task_id, new_title>>, "None")
  /\ UNCHANGED issued

MvcSetDueDate(task_id, due_date) ==
  /\ state' = mvc_set_due_date(state, task_id, due_date)
  /\ last' = Called("mvc.set_due_date", <<task_id, due_date>>, "None")
  /\ UNCHANGED issued

MvcSetCategory(task_id, category) ==
  /\ state' = mvc_set_category(state, task_id, category)
  /\ last' = Called("mvc.set_category", <<task_id, category>>, "None")
  /\ UNCHANGED issued

MvcAddCategory(name) ==
  /\ state' = mvc_add_category(state, name)
  /\ last' = Called("mvc.add_category", <<name>>, "None")
  /\ UNCHANGED issued

MvcRenameCategory(old, new) ==
  /\ state' = mvc_rename_category(state, old, new)
  /\ last' = Called("mvc.rename_category", <<old, new>>, "None")
  /\ UNCHANGED issued

MvcDeleteCategory(name) ==
  /\ state' = mvc_delete_category(state, name)
  /\ last' = Called("mvc.delete_category", <<name>>, "None")
  /\ UNCHANGED issued

\* MvcSpec: add is not called once MaxMvc tasks are stored.
MaxMvc == 2

MVC_IDS == 1..(MaxMvc + 1)

MVC_TASKS ==
  {Task(i, <<"a">>, FALSE, Null, c, Hoch) : i \in 1..MaxMvc, c \in {Null, W}}

MvcNext ==
  \/ \E t \in MVC_TASKS : Len(list_all(state)) < MaxMvc /\ MvcAdd(t)
  \/ \E i \in MVC_IDS : MvcSetDone(i, TRUE)
  \/ \E i \in MVC_IDS : MvcRenameTask(i, <<"b">>)
  \/ \E i \in MVC_IDS : MvcSetDueDate(i, D1)
  \/ \E i \in MVC_IDS : MvcSetCategory(i, J)
  \/ \E n \in {W, J} : MvcAddCategory(n)
  \/ \E n \in {J, <<" ">>} : MvcRenameCategory(W, n)
  \/ \E n \in {W, J} : MvcDeleteCategory(n)

MvcSpec == Init /\ [][MvcNext]_vars

\* the field a method names, the tasks it targets and the value it gives them
MvcWrites(t) ==
  CASE last'.op = "mvc.set_done" ->
         IF t.id = last'.args[1] THEN [t EXCEPT !.done = last'.args[2]] ELSE t
    [] last'.op = "mvc.rename_task" ->
         IF t.id = last'.args[1] THEN [t EXCEPT !.title = last'.args[2]] ELSE t
    [] last'.op = "mvc.set_due_date" ->
         IF t.id = last'.args[1] THEN [t EXCEPT !.due_date = last'.args[2]] ELSE t
    [] last'.op = "mvc.set_category" ->
         IF t.id = last'.args[1] THEN [t EXCEPT !.category = last'.args[2]] ELSE t
    [] last'.op = "mvc.rename_category" ->
         IF t.category = Trimmed(last'.args[1])
         THEN [t EXCEPT !.category = Trimmed(last'.args[2])] ELSE t
    [] last'.op = "mvc.delete_category" ->
         IF t.category = Trimmed(last'.args[1]) THEN [t EXCEPT !.category = Null] ELSE t
    [] OTHER -> t

\* rename_category and delete_category return early when they refuse the call
MvcAccepted ==
  last'.op \in {"mvc.rename_category", "mvc.delete_category"}
    => list_categories(state') # list_categories(state)

MVC_SETTERS ==
  {"mvc.set_done", "mvc.rename_task", "mvc.set_due_date", "mvc.set_category",
   "mvc.rename_category", "mvc.delete_category"}

\* C28: in the todo_mvc repository, set_done, rename_task, set_due_date,
\* set_category, rename_category and delete_category leave every stored task
\* as it was except for the field the method names on the tasks it targets:
\* all other fields, priority among them, are preserved, also on the tasks
\* whose category is not the one renamed or deleted.
C28_MvcSettersPreserveOtherFields ==
  [][ (last'.op \in MVC_SETTERS /\ MvcAccepted)
        => LET before == list_all(state)
               after == list_all(state')
           IN /\ Len(after) = Len(before)
              /\ \A i \in 1..Len(before) : after[i] = MvcWrites(before[i]) ]_vars

-----------------------------------------------------------------------------
(* src/controller/todo_controller.py: TodoController. Its UI state is the  *)
(* mapping the repository stores in, as in the unit tests' fixtures: the   *)
(* UI keys live in state beside the three session keys.                    *)

UI_EDITING_ID == "editing_id"
UI_NEW_TITLE == "new_title"
UI_ADD_DUE_DATE == "add_due_date"
UI_NEW_PRIORITY == "new_priority"
UI_NEW_CATEGORY == "new_category"
UI_FILTER_RAW == "filter_raw"
UI_CAT_NEW_NAME == "cat_new_name"
UI_CAT_RENAME_TARGET == "cat_rename_target"
UI_CAT_RENAME_VALUE == "cat_rename_value"
UI_OPEN_CAT_DIALOG == "open_cat_dialog"
UI_EDIT_SESSION == "_edit_session"

\* the labels the select boxes show for "none": values that are neither empty
\* nor the name of a priority
CATEGORY_NONE_LABEL == <<"Kategorie wählen">>
PRIORITY_NONE_LABEL == <<"PRIORITY_NONE_LABEL">>

\* an int where None may stand as well
IntValue(n) == <<"int", n>>

\* f"{prefix}{task_id}"
fkey(prefix, task_id) == prefix \o ToString(task_id)

\* self._ui.get(key)
ui_get(st, key) == Get(st, key, Null)

\* not value, for a str or None
falsy(value) == value = Null \/ value = <<>>

init_ui_state(st) ==
  LET defaults ==
        (UI_EDITING_ID :> Null) @@ (UI_NEW_TITLE :> <<>>) @@ (UI_ADD_DUE_DATE :> Null)
        @@ (UI_NEW_PRIORITY :> PRIORITY_NONE_LABEL) @@ (UI_NEW_CATEGORY :> CATEGORY_NONE_LABEL)
        @@ (UI_FILTER_RAW :> FILTER_ALL) @@ (UI_CAT_NEW_NAME :> <<>>)
        @@ (UI_CAT_RENAME_TARGET :> Null) @@ (UI_CAT_RENAME_VALUE :> <<>>)
        @@ (UI_OPEN_CAT_DIALOG :> FALSE) @@ (UI_EDIT_SESSION :> 0)
  IN [k \in DOMAIN st \cup DOMAIN defaults |-> IF k \in DOMAIN st THEN st[k] ELSE defaults[k]]

controller_initialize(st) == init_ui_state(initialize(st))

ui_to_domain(value) ==
  IF falsy(value) \/ value \in {CATEGORY_NONE_LABEL, PRIORITY_NONE_LABEL} THEN Null
  ELSE value

controller_add_category(st) ==
  LET name == strip(OrEmpty(ui_get(st, UI_CAT_NEW_NAME)))
  IN IF name = <<>> THEN st
     ELSE LET r == service_add_category(st, name)
          IN IF r.ret THEN Put(r.st, UI_CAT_NEW_NAME, <<>>) ELSE r.st

cancel_rename_category(st) ==
  Put(Put(st, UI_CAT_RENAME_TARGET, Null), UI_CAT_RENAME_VALUE, <<>>)

\* the keys of the mapping that start with "cat_sel_"
cat_sel_keys(st) == {k \in DOMAIN st : \E i \in 0..9 : k = fkey("cat_sel_", i)}

clear_category_references(st, name) ==
  LET s1 == IF ui_get(st, UI_NEW_CATEGORY) = name
            THEN Put(st, UI_NEW_CATEGORY, CATEGORY_NONE_LABEL) ELSE st
  IN [k \in DOMAIN s1 |->
        IF k \in cat_sel_keys(s1) /\ s1[k] = name THEN CATEGORY_NONE_LABEL ELSE s1[k]]

controller_delete_category(st, name) ==
  LET s1 == service_delete_category(st, name).st
      s2 == IF ui_get(s1, UI_CAT_RENAME_TARGET) = name THEN cancel_rename_category(s1)
            ELSE s1
  IN clear_category_references(s2, name)

\* as reset_add_form, leaving the title in the form
reset_add_form_keeps_title(st) ==
  Put(Put(Put(st, UI_ADD_DUE_DATE, Null),
          UI_NEW_PRIORITY, PRIORITY_NONE_LABEL),
      UI_NEW_CATEGORY, CATEGORY_NONE_LABEL)

reset_add_form(st) ==
  Put(Put(Put(Put(st, UI_NEW_TITLE, <<>>),
              UI_ADD_DUE_DATE, Null),
          UI_NEW_PRIORITY, PRIORITY_NONE_LABEL),
      UI_NEW_CATEGORY, CATEGORY_NONE_LABEL)

\* st: the mapping afterwards; ret, id: what service.add_task answered
controller_add_task(st) ==
  LET title == strip(OrEmpty(ui_get(st, UI_NEW_TITLE)))
  IN IF title = <<>> THEN [st |-> st, ret |-> FALSE, id |-> 0]
     ELSE LET due_date == ui_get(st, UI_ADD_DUE_DATE)
              category == ui_to_domain(ui_get(st, UI_NEW_CATEGORY))
              priority == ui_to_domain(ui_get(st, UI_NEW_PRIORITY))
              r == service_add_task(st, title, due_date, category, priority)
          IN IF r.ret THEN [st |-> reset_add_form(r.st), ret |-> TRUE, id |-> r.id]
             ELSE r

start_edit(st, task_id, current_title, current_due, current_cat, current_prio) ==
  LET s1 == Put(st, UI_EDIT_SESSION, Get(st, UI_EDIT_SESSION, 0) + 1)
      s2 == Put(s1, UI_EDITING_ID, IntValue(task_id))
      s3 == Put(s2, fkey("title_", task_id), current_title)
      s4 == Put(s3, fkey("prio_", task_id),
                IF falsy(current_prio) THEN PRIORITY_NONE_LABEL ELSE current_prio)
      s5 == Put(s4, fkey("cat_sel_", task_id),
                IF falsy(current_cat) THEN CATEGORY_NONE_LABEL ELSE current_cat)
  IN Put(s5, fkey("due_value_", task_id), current_due)

cleanup_edit_state(st, task_id) ==
  LET popped == [k \in DOMAIN st \ {fkey("due_value_", task_id)} |-> st[k]]
  IN Put(popped, UI_EDITING_ID, Null)

save_edit(st, task_id) ==
  LET title == Get(st, fkey("title_", task_id), <<>>)
      due_date == ui_get(st, fkey("due_value_", task_id))
      priority == ui_to_domain(ui_get(st, fkey("prio_", task_id)))
      category == ui_to_domain(ui_get(st, fkey("cat_sel_", task_id)))
      r == service_update_task(st, task_id, title, due_date, category, priority, TRUE, TRUE)
  IN cleanup_edit_state(r.st, task_id)

CtlInitialize ==
  /\ state' = controller_initialize(state)
  /\ last' = Called("ctl.initialize", <<>>, "None")
  /\ UNCHANGED issued

\* a widget of the view, or set_ui_value, stores what the user entered
SetUiValue(key, value) ==
  /\ state' = Put(state, key, value)
  /\ last' = Called("ctl.set_ui_value", <<key, value>>, "None")
  /\ UNCHANGED issued

CtlAddCategory ==
  /\ state' = controller_add_category(state)
  /\ last' = Called("ctl.add_category", <<ui_get(state, UI_CAT_NEW_NAME)>>, "None")
  /\ UNCHANGED issued

CtlDeleteCategory(name) ==
  /\ state' = controller_delete_category(state, name)
  /\ last' = Called("ctl.delete_category", <<name>>, "None")
  /\ UNCHANGED issued

\* args: the form as the handler read it
CtlAddTask ==
  LET r == controller_add_task(state)
  IN /\ state' = r.st
     /\ last' = Called("ctl.add_task",
                       <<ui_get(state, UI_NEW_TITLE), ui_get(state, UI_ADD_DUE_DATE),
                         ui_get(state, UI_NEW_CATEGORY), ui_get(state, UI_NEW_PRIORITY)>>,
                       "None")
     /\ issued' = IF r.ret THEN Append(issued, r.id) ELSE issued

\* the view starts the edit of a task it lists, with the task's fields
CtlStartEdit(task) ==
  /\ state' = start_edit(state, task.id, task.title, task.due_date, task.category,
                         task.priority)
  /\ last' = Called("ctl.start_edit", <<task.id>>, "None")
  /\ UNCHANGED issued

\* args: the task id and the category selection the handler read
CtlSaveEdit(task_id) ==
  /\ state' = save_edit(state, task_id)
  /\ last' = Called("ctl.save_edit",
                    <<task_id, ui_get(state, fkey("cat_sel_", task_id))>>, "None")
  /\ UNCHANGED issued

\* ControllerSpec: add_task is not called once the id counter exceeds MaxCtl.
MaxCtl == 1

UI_INPUTS ==
  {<<UI_NEW_TITLE, <<"a", " ">> >>, <<UI_NEW_TITLE, <<" ">> >>,
   <<UI_NEW_CATEGORY, W>>, <<UI_NEW_PRIORITY, Hoch>>, <<UI_ADD_DUE_DATE, D1>>,
   <<UI_CAT_NEW_NAME, W>>}

\* the add form and the category dialog
ControllerNext ==
  \/ CtlInitialize
  \/ \E kv \in UI_INPUTS : SetUiValue(kv[1], kv[2])
  \/ CtlAddCategory
  \/ NextId <= MaxCtl /\ CtlAddTask

ControllerSpec == Init /\ [][ControllerNext]_vars

\* EditSpec: add_task is not called once the id counter exceeds MaxEdit,
\* start_edit not once the edit session counter has reached MaxEdit.
MaxEdit == 1

EDIT_IDS == 1..MaxEdit

\* the edit of a stored task, and the service calls that write a category
EditNext ==
  \/ CtlInitialize
  \/ AddCategory(W)
  \/ NextId <= MaxEdit /\ AddTask(<<"a">>, Null, W, Null)
  \/ \E i \in 1..Len(list_all(state)) :
       /\ Get(state, UI_EDIT_SESSION, 0) < MaxEdit
       /\ CtlStartEdit(list_all(state)[i])
  \/ \E i \in EDIT_IDS, c \in {CATEGORY_NONE_LABEL, J} : SetUiValue(fkey("cat_sel_", i), c)
  \/ \E i \in EDIT_IDS : CtlSaveEdit(i)
  \/ CtlDeleteCategory(W)
  \/ \E i \in EDIT_IDS, c \in {Null, J} : SetCategory(i, c)
  \/ \E i \in EDIT_IDS, c \in {Null, J} : UpdateTask(i, Null, Null, c, Null, FALSE, FALSE)

EditSpec == Init /\ [][EditNext]_vars

\* the add form: title, due date, priority and category fields of the UI state
AddForm(st) ==
  <<ui_get(st, UI_NEW_TITLE), ui_get(st, UI_ADD_DUE_DATE),
    ui_get(st, UI_NEW_PRIORITY), ui_get(st, UI_NEW_CATEGORY)>>

FORM_KEYS == {UI_NEW_TITLE, UI_ADD_DUE_DATE, UI_NEW_PRIORITY, UI_NEW_CATEGORY}

\* the defaults _init_ui_state gives the four fields
FormDefaults == << <<>>, Null, PRIORITY_NONE_LABEL, CATEGORY_NONE_LABEL >>

\* the UI state: every key but the three the repository owns
UiState(st) == [k \in DOMAIN st \ {TASKS_KEY, NEXT_ID_KEY, CATEGORIES_KEY} |-> st[k]]

OtherUi(st) == [k \in DOMAIN UiState(st) \ FORM_KEYS |-> st[k]]

\* C27: TodoController.add_task leaves the four add-form fields at their
\* defaults, and the rest of the UI state as it was, when it added a task;
\* when it added none the whole UI state is as before; and with a form title
\* that is empty or only whitespace it adds no task.
C27_AddFormReset ==
  [][ last'.op = "ctl.add_task"
        => LET added == list_all(state') # list_all(state)
           IN /\ Blank(ui_get(state, UI_NEW_TITLE)) => ~added
              /\ added => /\ AddForm(state') = FormDefaults
                          /\ OtherUi(state') = OtherUi(state)
                          /\ Len(list_all(state')) = Len(list_all(state)) + 1
              /\ ~added => UiState(state') = UiState(state) ]_vars

\* a form holding "a " and category W was submitted: the task is stored and
\* the form is back at its defaults
C27_Witness ==
  /\ last.op = "ctl.add_task"
  /\ last.args[1] = <<"a", " ">> /\ last.args[3] = W
  /\ AddForm(state) = FormDefaults
  /\ \E i \in 1..Len(Todos) :
       /\ Todos[i].id = issued[Len(issued)]
       /\ Todos[i].title = <<"a">> /\ Todos[i].category = W

\* the call hands update_task the category None
PassesNone ==
  \/ last'.op = "update_task" /\ last'.args[4] = Null
  \/ last'.op = "ctl.save_edit" /\ ui_to_domain(last'.args[2]) = Null

CategoriesKept ==
  /\ Len(list_all(state')) = Len(list_all(state))
  /\ \A i \in 1..Len(list_all(state)) :
       list_all(state')[i].category = list_all(state)[i].category

\* the stored task t had a category and is stored without one afterwards
Cleared(t) ==
  /\ t.category # Null
  /\ \E j \in 1..Len(list_all(state')) :
       list_all(state')[j].id = t.id /\ list_all(state')[j].category = Null

\* the category the call hands to the service's validation
GivenCategory ==
  CASE last'.op = "set_category" -> last'.args[2]
    [] last'.op = "update_task" -> last'.args[4]
    [] last'.op = "ctl.save_edit" -> ui_to_domain(last'.args[2])

\* C30 as stated: update_task given category None, and save_edit with the
\* "no category" label selected, leave every task's category as it was; and a
\* task's category becomes None only by set_category(id, None) or by the
\* delete of the category.
C30_CategoryClearedOnlyBySetOrDelete ==
  [][ /\ PassesNone => CategoriesKept
      /\ \A i \in 1..Len(list_all(state)) :
           Cleared(list_all(state)[i])
             => \/ last'.op = "set_category" /\ last'.args[2] = Null
                \/ last'.op \in {"delete_category", "ctl.delete_category"} ]_vars

\* C30, amended: update_task given category None, and save_edit with the
\* "no category" label selected, leave every task's category as it was; a
\* task's category becomes None only by the delete of that category, by
\* set_category given a category that validates to None (None, blank or not
\* stored), or by update_task or save_edit given a category other than None
\* that validates to None (blank or not stored).
C30_CategoryClearedByInvalidOrDelete ==
  [][ /\ PassesNone => CategoriesKept
      /\ \A i \in 1..Len(list_all(state)) :
           Cleared(list_all(state)[i])
             => \/ /\ last'.op = "set_category"
                   /\ validate_category(state, GivenCategory) = Null
                \/ /\ last'.op \in {"update_task", "ctl.save_edit"}
                   /\ GivenCategory # Null
                   /\ validate_category(state, GivenCategory) = Null
                \/ /\ last'.op \in {"delete_category", "ctl.delete_category"}
                   /\ list_all(state)[i].category = Trimmed(last'.args[1]) ]_vars

\* the edit of a task of category W was saved with the "no category" label
\* selected, and the task still has category W
C30_Witness ==
  /\ last.op = "ctl.save_edit" /\ last.args[2] = CATEGORY_NONE_LABEL
  /\ \E i \in 1..Len(Todos) : Todos[i].id = last.args[1] /\ Todos[i].category = W
=============================================================================
